---------------------------- MODULE Spec2Model ----------------------------
(***************************************************************************)
(* Model of the WebGPU execution provider's program machinery:             *)
(*   - ProgramManager::NormalizeDispatchGroupSize (dispatch normalizer)    *)
(*   - ProgramManager::Get / Set / Build and the get-or-build sequence     *)
(*     that callers run on one ProgramManager (pipeline cache)             *)
(*   - ShaderHelper construction and ShaderHelper::MainFunctionBody        *)
(*                                                                         *)
(* Several specifications share the module's variables; each has its own   *)
(* initial condition and next-state relation and leaves the variables of   *)
(* the other parts at their initial values.                                *)
(***************************************************************************)
EXTENDS Integers, Sequences, FiniteSets, TLC

VARIABLES
    \* ---- dispatch normalizer (SpecNormalize) ----
    dispatch,        \* the requested (x, y, z) and the device limit
    normalized,      \* result of NormalizeDispatchGroupSize, or NoResult
    \* ---- pipeline cache, sequential callers (Spec) and
    \*      concurrent callers (SpecConcurrent) ----
    programs_,       \* ProgramManager::programs_ : set of nodes [key, artifact]
    next_pipeline,   \* next fresh wgpu::ComputePipeline handle
    build_count,     \* per key: number of times Build has been entered
    build_ok_count,  \* per key: number of times Build returned Status OK
    returned,        \* per key: the artifacts get-or-build has handed out
    last,            \* the last completed call: operation, arguments, result
    pc,              \* per caller: position inside get-or-build
    call,            \* per caller: the call's arguments and locals
    \* ---- shader helper (SpecShader) ----
    sh,              \* the ShaderHelper object, or NoHelper
    \* ---- uniform layout (SpecLayout) ----
    uniform_variables,  \* program.UniformVariables()
    program_artifact,   \* the ProgramArtifact built for them, or NoArtifact
    \* ---- cache key (SpecKey) ----
    key_requests,    \* two programs, each with the 1-D flag of its dispatch
    cache_keys,      \* their keys, or NoKeys
    shader_sources,  \* the shader text built for each, or NoSources
    \* ---- shader source (SpecSource) ----
    add_calls,       \* the AddVariable calls the helper accepted, in call order
    final_source,    \* what GetFinalSourceCode returned, or NoSource
    overridable_constants,  \* the program's overridable constant definitions
    last_call        \* the last call made on the helper, with its arguments

vars == <<dispatch, normalized, programs_, next_pipeline, build_count,
          build_ok_count, returned, last, pc, call, sh, uniform_variables,
          program_artifact, key_requests, cache_keys, shader_sources, add_calls,
          final_source, last_call, overridable_constants>>

normVars  == <<dispatch, normalized>>
cacheVars == <<programs_, next_pipeline, build_count, build_ok_count, returned,
               last, pc, call>>
shVars    == <<sh>>
layoutVars == <<uniform_variables, program_artifact>>
keyVars    == <<key_requests, cache_keys, shader_sources>>
sourceVars == <<add_calls, final_source, last_call, overridable_constants>>

-----------------------------------------------------------------------------
(***************************************************************************)
(* Exact natural-number arithmetic.  The code forms x*y*z as a double and  *)
(* converts ceil(sqrt(.)) / ceil(cbrt(.)) to SafeInt<uint32_t>; a product  *)
(* of three 32-bit values does not fit the checker's integers, so naturals *)
(* are kept as little-endian sequences of base-10^4 limbs.                 *)
(***************************************************************************)
Limb == 10 ^ 4

RECURSIVE BigOf(_)
BigOf(n) == IF n = 0 THEN << >> ELSE <<n % Limb>> \o BigOf(n \div Limb)

RECURSIVE BigAddC(_, _, _)
BigAddC(a, b, carry) ==
    IF a = << >> /\ b = << >> THEN BigOf(carry)
    ELSE LET da == IF a = << >> THEN 0 ELSE Head(a)
             db == IF b = << >> THEN 0 ELSE Head(b)
             ta == IF a = << >> THEN << >> ELSE Tail(a)
             tb == IF b = << >> THEN << >> ELSE Tail(b)
             t  == da + db + carry
         IN  <<t % Limb>> \o BigAddC(ta, tb, t \div Limb)

BigAdd(a, b) == BigAddC(a, b, 0)

RECURSIVE BigMulLimbC(_, _, _)
BigMulLimbC(a, m, carry) ==
    IF a = << >> THEN BigOf(carry)
    ELSE LET t == Head(a) * m + carry
         IN  <<t % Limb>> \o BigMulLimbC(Tail(a), m, t \div Limb)

BigMulLimb(a, m) == IF m = 0 THEN << >> ELSE BigMulLimbC(a, m, 0)

BigShift(a) == IF a = << >> THEN << >> ELSE <<0>> \o a

RECURSIVE BigMul(_, _)
BigMul(a, b) ==
    IF a = << >> \/ b = << >> THEN << >>
    ELSE BigAdd(BigMulLimb(a, Head(b)), BigShift(BigMul(a, Tail(b))))

RECURSIVE BigLessSameLen(_, _)
BigLessSameLen(a, b) ==
    IF a = << >> THEN FALSE
    ELSE LET n == Len(a)
         IN  IF a[n] # b[n] THEN a[n] < b[n]
             ELSE BigLessSameLen(SubSeq(a, 1, n - 1), SubSeq(b, 1, n - 1))

BigLess(a, b) ==
    IF Len(a) # Len(b) THEN Len(a) < Len(b) ELSE BigLessSameLen(a, b)

BigLeq(a, b) == ~BigLess(b, a)

RECURSIVE BigPow(_, _)
BigPow(n, k) == IF k = 0 THEN BigOf(1) ELSE BigMul(BigOf(n), BigPow(n, k - 1))

\* std::numeric_limits<uint32_t>::max() = 2^32 - 1 = 65535 * 65537
UInt32MaxBig == BigMul(BigOf(65535), BigOf(65537))

\* The least r in lo..hi with r^k >= size, where hi is known to qualify.
RECURSIVE LeastRoot(_, _, _, _)
LeastRoot(size, k, lo, hi) ==
    IF lo >= hi THEN lo
    ELSE LET mid == lo + ((hi - lo) \div 2)
         IN  IF BigLeq(size, BigPow(mid, k))
             THEN LeastRoot(size, k, lo, mid)
             ELSE LeastRoot(size, k, mid + 1, hi)

\* ceil(size^(1/k)), saturated at cap + 1: the code only compares the value
\* with the limit and returns it when it does not exceed the limit.
CeilRoot(size, k, cap) ==
    IF BigLess(BigPow(cap, k), size) THEN cap + 1
    ELSE LeastRoot(size, k, 0, cap)


-----------------------------------------------------------------------------
(***************************************************************************)
(* Dispatch normalizer: ProgramManager::NormalizeDispatchGroupSize.        *)
(* Both revisions in the source compute the same function; one returns the *)
(* tuple and throws on failure (ORT_ENFORCE), the other writes x, y, z in  *)
(* place and returns a Status (ORT_RETURN_IF), leaving x, y, z untouched   *)
(* on failure.                                                             *)
(***************************************************************************)
MaxDim   == 6    \* requested dispatch counts range over 0..MaxDim
MaxLimit == 4    \* limits_.maxComputeWorkgroupsPerDimension ranges over 1..MaxLimit

NoResult == [status |-> "none"]

\* Requests with the concrete numbers of the documented scenarios, and large
\* ones that exercise the 32-bit conversion of the square-root candidate.
ScenarioRequests ==
    { [x |-> 2,       y |-> 1,       z |-> 1,       limit |-> 65535],
      [x |-> 65535,   y |-> 65535,   z |-> 65535,   limit |-> 65535],
      [x |-> 65536,   y |-> 1,       z |-> 1,       limit |-> 65535],
      [x |-> 100000,  y |-> 100000,  z |-> 1,       limit |-> 65535],
      [x |-> 65536,   y |-> 65536,   z |-> 65535,   limit |-> 65535],
      [x |-> 65536,   y |-> 65536,   z |-> 65536,   limit |-> 65535],
      [x |-> 8388608, y |-> 2097152, z |-> 2097152, limit |-> 65535],
      [x |-> 2147483647, y |-> 2147483647, z |-> 16, limit |-> 4194304] }

Requests ==
    [x : 0..MaxDim, y : 0..MaxDim, z : 0..MaxDim, limit : 1..MaxLimit]
        \cup ScenarioRequests

\* static_cast<double>(x) * static_cast<double>(y) * static_cast<double>(z)
DispatchProduct(x, y, z) == BigMul(BigMul(BigOf(x), BigOf(y)), BigOf(z))

\* x <= limit && y <= limit && z <= limit, written with < by mistake
WithinLimitStrict(x, y, z, limit_per_dimension) ==
    x < limit_per_dimension /\ y < limit_per_dimension /\ z < limit_per_dimension

WithinLimit(x, y, z, limit_per_dimension) ==
    x <= limit_per_dimension /\ y <= limit_per_dimension /\ z <= limit_per_dimension

\* SafeInt<uint32_t> dispatch_avg = std::ceil(std::sqrt(size)) throws when the
\* value does not fit 32 bits: ceil(sqrt(size)) > 2^32 - 1 iff size > (2^32 - 1)^2.
SafeIntOverflows(size) == BigLess(BigMul(UInt32MaxBig, UInt32MaxBig), size)

\* std::ceil(std::sqrt(size)) for k = 2, std::ceil(std::cbrt(size)) for k = 3
RootCandidate(size, k, limit_per_dimension) == CeilRoot(size, k, limit_per_dimension)

Accepted(x, y, z) == [status |-> "ok", x |-> x, y |-> y, z |-> z]
Rejected(why, x, y, z) == [status |-> why, x |-> x, y |-> y, z |-> z]

\* no cube-root fallback: a square-root candidate over the limit is fatal
NormalizeWithoutCubeRoot(x, y, z, limit_per_dimension) ==
    IF WithinLimit(x, y, z, limit_per_dimension)
    THEN Accepted(x, y, z)
    ELSE LET size == DispatchProduct(x, y, z)
         IN  IF SafeIntOverflows(size)
             THEN Rejected("safeint_overflow", x, y, z)
             ELSE LET dispatch_avg == RootCandidate(size, 2, limit_per_dimension)
                  IN  IF dispatch_avg > limit_per_dimension
                      THEN Rejected("exceeds_maximum", x, y, z)
                      ELSE Accepted(dispatch_avg, dispatch_avg, 1)

NormalizeDispatchGroupSize(x, y, z, limit_per_dimension) ==
    IF WithinLimit(x, y, z, limit_per_dimension)
    THEN Accepted(x, y, z)
    ELSE LET size == DispatchProduct(x, y, z)
         IN  IF SafeIntOverflows(size)
             THEN Rejected("safeint_overflow", x, y, z)
             ELSE LET dispatch_avg == RootCandidate(size, 2, limit_per_dimension)
                  IN  IF dispatch_avg > limit_per_dimension
                      THEN LET dispatch_cbrt == RootCandidate(size, 3, limit_per_dimension)
                           IN  IF dispatch_cbrt > limit_per_dimension
                               THEN Rejected("exceeds_maximum", x, y, z)
                               ELSE Accepted(dispatch_cbrt, dispatch_cbrt, dispatch_cbrt)
                      ELSE Accepted(dispatch_avg, dispatch_avg, 1)

-----------------------------------------------------------------------------
(***************************************************************************)
(* Initial values of the parts a specification does not exercise.          *)
(***************************************************************************)
NormIdle == dispatch = [x |-> 1, y |-> 1, z |-> 1, limit |-> 1] /\ normalized = NoResult

(***************************************************************************)
(* SpecNormalize: a caller holds a requested dispatch and the device       *)
(* limit and runs NormalizeDispatchGroupSize on it once.                   *)
(***************************************************************************)
Normalize ==
    /\ normalized = NoResult
    /\ normalized' = NormalizeDispatchGroupSize(dispatch.x, dispatch.y, dispatch.z,
                                                dispatch.limit)
    /\ UNCHANGED dispatch


-----------------------------------------------------------------------------
(***************************************************************************)
(* Pipeline cache: ProgramManager::Get, Set, Build on programs_            *)
(* (std::unordered_map<std::string, ProgramArtifact>).  The map is kept as *)
(* a set of nodes [key, artifact]; Get and Set hand out the address of a   *)
(* node's artifact, which is identified here by its pipeline handle (every *)
(* Build and every caller-made artifact gets a fresh handle).              *)
(***************************************************************************)
MaxBuilds    == 2    \* Build is entered at most this many times per key
MaxPipelines == 3    \* at most this many pipeline handles are created
NumCallers   == 2    \* concurrent callers of get-or-build

Keys    == {"k1", "k2"}
Callers == 1..NumCallers

\* nullptr
Absent == [pipeline |-> 0, valid |-> FALSE]

\* The ProgramManager's limits_.maxComputeWorkgroupsPerDimension.
CacheLimit == MaxLimit

\* Requested dispatches seen by the cache: within the limit, never set
\* (a zero component), normalized to (s, s, 1), and beyond any normalization.
CacheDispatches ==
    { [x |-> 1, y |-> 1, z |-> 1],
      [x |-> 0, y |-> 1, z |-> 1],
      [x |-> CacheLimit + 1, y |-> 1, z |-> 1],
      [x |-> CacheLimit + 1, y |-> CacheLimit + 1, z |-> CacheLimit + 1] }

\* A program handed to get-or-build together with its key.  generate: whether
\* program.GenerateShaderCode / GetFinalSourceCode succeed; compile: whether
\* the device accepts the generated source.
CacheRequests ==
    [key : Keys, dispatch : CacheDispatches,
     generate : {"ok", "error"}, compile : {"ok", "error"}]

NodesOf(programs, key) == {n \in programs : n.key = key}

\* programs_[key]: operator[] default-constructs a missing entry
GetBySubscript(programs, key) ==
    IF NodesOf(programs, key) = {}
    THEN [results |-> {Absent}, programs |-> programs \cup {[key |-> key, artifact |-> Absent]}]
    ELSE [results |-> {n.artifact : n \in NodesOf(programs, key)}, programs |-> programs]

\* the comparison with end() inverted: a hit is reported as nullptr
GetMissesHit(programs, key) == [results |-> {Absent}, programs |-> programs]

\* ProgramManager::Get: programs_.find(key); the address of the entry, or
\* nullptr.  results is the set of entries find may land on (one, unless an
\* unsynchronized emplace left two nodes with the key).
Get(programs, key) ==
    IF NodesOf(programs, key) = {}
    THEN [results |-> {Absent}, programs |-> programs]
    ELSE [results |-> {n.artifact : n \in NodesOf(programs, key)}, programs |-> programs]

\* insert_or_assign / operator[] = : the new artifact replaces the stored one
SetOverwrites(programs, key, artifact) ==
    [result |-> artifact,
     programs |-> (programs \ NodesOf(programs, key)) \cup {[key |-> key, artifact |-> artifact]}]

\* ProgramManager::Set: programs_.emplace(key, std::move(program)).first->second.
\* emplace inserts only when the key is missing and yields the entry that is
\* in the map afterwards.
Set(programs, key, artifact) ==
    IF NodesOf(programs, key) = {}
    THEN [result |-> artifact,
          programs |-> programs \cup {[key |-> key, artifact |-> artifact]}]
    ELSE [result |-> (CHOOSE n \in NodesOf(programs, key) : TRUE).artifact,
          programs |-> programs]

\* the enforce written with >= : a zero dispatch component is let through
HelperConstructibleNonNegative(x, y, z) == x >= 0 /\ y >= 0 /\ z >= 0

\* ShaderHelper's constructor: ORT_ENFORCE on the dispatch group sizes
HelperConstructible(x, y, z) == x > 0 /\ y > 0 /\ z > 0

\* ProgramManager::Build: construct the ShaderHelper (throws on a zero
\* dispatch component), generate the source (ORT_RETURN_IF_ERROR), create the
\* shader module and the pipeline, return Status().  The result of
\* CreateShaderModule / CreateComputePipeline is not inspected: a source the
\* device rejects yields an invalid pipeline object and Status OK.
Build(request, normalized_dispatch, pipeline) ==
    IF ~HelperConstructible(normalized_dispatch.x, normalized_dispatch.y,
                            normalized_dispatch.z)
    THEN [status |-> "error", compute_pipeline |-> Absent]
    ELSE IF request.generate # "ok"
    THEN [status |-> "error", compute_pipeline |-> Absent]
    ELSE [status |-> "ok",
          compute_pipeline |-> [pipeline |-> pipeline, valid |-> request.compile = "ok"]]

\* get-or-build as run by the callers of the ProgramManager: Get(key); on a
\* miss NormalizeDispatchGroupSize, Build, Set(key, ProgramArtifact{...}).
\* found is what Get returned.  failed names the stage that went wrong.
GetOrBuild(programs, found, request, pipeline) ==
    IF found # Absent
    THEN [status |-> "ok", result |-> found, programs |-> programs,
          built |-> FALSE, built_ok |-> FALSE, failed |-> "none"]
    ELSE LET d == request.dispatch
             n == NormalizeDispatchGroupSize(d.x, d.y, d.z, CacheLimit)
         IN  IF n.status # "ok"
             THEN [status |-> "error", result |-> Absent, programs |-> programs,
                   built |-> FALSE, built_ok |-> FALSE, failed |-> "normalize"]
             ELSE LET b == Build(request, n, pipeline)
                  IN  IF b.status # "ok"
                      THEN [status |-> "error", result |-> Absent, programs |-> programs,
                            built |-> TRUE, built_ok |-> FALSE, failed |-> "generate"]
                      ELSE LET s == Set(programs, request.key, b.compute_pipeline)
                           IN  [status |-> "ok", result |-> s.result,
                                programs |-> s.programs,
                                built |-> TRUE, built_ok |-> TRUE,
                                failed |-> IF b.compute_pipeline.valid
                                           THEN "none" ELSE "compile"]


NoCall ==
    [op |-> "none", key |-> "", status |-> "ok", result |-> Absent,
     before |-> {}, builds_before |-> [k \in Keys |-> 0], failed |-> "none"]

NoRequest ==
    [key |-> "", dispatch |-> [x |-> 1, y |-> 1, z |-> 1],
     generate |-> "ok", compile |-> "ok"]

IdleCall ==
    [request |-> NoRequest, norm |-> NoResult, built |-> Absent, seen |-> {},
     status |-> "none", result |-> Absent]

CacheInit ==
    /\ programs_ = {}
    /\ next_pipeline = 1
    /\ build_count = [k \in Keys |-> 0]
    /\ build_ok_count = [k \in Keys |-> 0]
    /\ returned = [k \in Keys |-> {}]
    /\ last = NoCall
    /\ pc = [c \in Callers |-> "idle"]
    /\ call = [c \in Callers |-> IdleCall]

(***************************************************************************)
(* Spec: one caller at a time uses the ProgramManager; every call runs to  *)
(* completion before the next one starts.                                  *)
(***************************************************************************)
ApiGet(key) ==
    /\ \E r \in Get(programs_, key).results :
          last' = [op |-> "Get", key |-> key, status |-> "ok", result |-> r,
                   before |-> programs_, builds_before |-> build_count,
                   failed |-> "none"]
    /\ programs_' = Get(programs_, key).programs
    /\ UNCHANGED <<next_pipeline, build_count, build_ok_count, returned, pc, call>>

\* Set called with an artifact the caller made itself (a fresh pipeline).
ApiSet(key) ==
    /\ next_pipeline <= MaxPipelines
    /\ LET s == Set(programs_, key, [pipeline |-> next_pipeline, valid |-> TRUE])
       IN  /\ programs_' = s.programs
           /\ last' = [op |-> "Set", key |-> key, status |-> "ok", result |-> s.result,
                       before |-> programs_, builds_before |-> build_count,
                       failed |-> "none"]
    /\ next_pipeline' = next_pipeline + 1
    /\ UNCHANGED <<build_count, build_ok_count, returned, pc, call>>

ApiGetOrBuild(request) ==
    /\ build_count[request.key] < MaxBuilds
    /\ next_pipeline <= MaxPipelines
    /\ \E found \in Get(programs_, request.key).results :
          LET out == GetOrBuild(Get(programs_, request.key).programs, found,
                                request, next_pipeline)
              k   == request.key
          IN  /\ programs_' = out.programs
              /\ next_pipeline' = IF out.built_ok THEN next_pipeline + 1 ELSE next_pipeline
              /\ build_count' = IF out.built
                                THEN [build_count EXCEPT ![k] = @ + 1] ELSE build_count
              /\ build_ok_count' = IF out.built_ok
                                   THEN [build_ok_count EXCEPT ![k] = @ + 1]
                                   ELSE build_ok_count
              /\ returned' = IF out.status = "ok"
                             THEN [returned EXCEPT ![k] = @ \cup {out.result}]
                             ELSE returned
              /\ last' = [op |-> "GetOrBuild", key |-> k, status |-> out.status,
                          result |-> out.result, before |-> programs_,
                          builds_before |-> build_count, failed |-> out.failed]
    /\ UNCHANGED <<pc, call>>


(***************************************************************************)
(* SpecConcurrent: NumCallers threads each run get-or-build once on the    *)
(* same ProgramManager.  Neither ProgramManager nor the get-or-build       *)
(* sequence takes a lock, so the steps of different callers interleave     *)
(* freely, Build takes time, and emplace's lookup of the key and its       *)
(* linking of the new node are separate steps.                             *)
(***************************************************************************)
Finish(c, status, result) ==
    /\ pc' = [pc EXCEPT ![c] = "done"]
    /\ call' = [call EXCEPT ![c].status = status, ![c].result = result]
    /\ returned' = IF status = "ok"
                   THEN [returned EXCEPT ![call[c].request.key] = @ \cup {result}]
                   ELSE returned

Begin(c, request) ==
    /\ pc[c] = "idle"
    /\ pc' = [pc EXCEPT ![c] = "get"]
    /\ call' = [call EXCEPT ![c] = [IdleCall EXCEPT !.request = request]]
    /\ UNCHANGED <<programs_, next_pipeline, build_count, build_ok_count, returned, last>>

StepGet(c) ==
    /\ pc[c] = "get"
    /\ \E found \in Get(programs_, call[c].request.key).results :
          IF found # Absent
          THEN Finish(c, "ok", found)
          ELSE /\ pc' = [pc EXCEPT ![c] = "normalize"]
               /\ UNCHANGED <<call, returned>>
    /\ programs_' = Get(programs_, call[c].request.key).programs
    /\ UNCHANGED <<next_pipeline, build_count, build_ok_count, last>>

StepNormalize(c) ==
    /\ pc[c] = "normalize"
    /\ LET d == call[c].request.dispatch
           n == NormalizeDispatchGroupSize(d.x, d.y, d.z, CacheLimit)
       IN  IF n.status = "ok"
           THEN /\ pc' = [pc EXCEPT ![c] = "build"]
                /\ call' = [call EXCEPT ![c].norm = n]
                /\ UNCHANGED returned
           ELSE Finish(c, "error", Absent)
    /\ UNCHANGED <<programs_, next_pipeline, build_count, build_ok_count, last>>

StepBuildBegin(c) ==
    /\ pc[c] = "build"
    /\ pc' = [pc EXCEPT ![c] = "building"]
    /\ build_count' = [build_count EXCEPT ![call[c].request.key] = @ + 1]
    /\ UNCHANGED <<programs_, next_pipeline, build_ok_count, returned, last, call>>

StepBuildEnd(c) ==
    /\ pc[c] = "building"
    /\ LET b == Build(call[c].request, call[c].norm, next_pipeline)
       IN  IF b.status = "ok"
           THEN /\ pc' = [pc EXCEPT ![c] = "set"]
                /\ call' = [call EXCEPT ![c].built = b.compute_pipeline]
                /\ next_pipeline' = next_pipeline + 1
                /\ build_ok_count' =
                       [build_ok_count EXCEPT ![call[c].request.key] = @ + 1]
                /\ UNCHANGED returned
           ELSE /\ Finish(c, "error", Absent)
                /\ UNCHANGED <<next_pipeline, build_ok_count>>
    /\ UNCHANGED <<programs_, build_count, last>>

\* emplace looks the key up ...
StepSetLookup(c) ==
    /\ pc[c] = "set"
    /\ pc' = [pc EXCEPT ![c] = "emplace"]
    /\ call' = [call EXCEPT ![c].seen = NodesOf(programs_, call[c].request.key)]
    /\ UNCHANGED <<programs_, next_pipeline, build_count, build_ok_count, returned, last>>

\* ... and links the node or yields the entry it found.  When no other thread
\* changed the key's entries in between, this is Set.  Otherwise the two
\* emplace calls race (undefined behaviour on an unsynchronized
\* unordered_map): the call may act on what its lookup saw and link its own
\* node beside the other one, or happen to take effect after the other call.
StepSetLink(c) ==
    /\ pc[c] = "emplace"
    /\ LET k == call[c].request.key
           s == Set(programs_, k, call[c].built)
       IN  \/ /\ NodesOf(programs_, k) = call[c].seen
              /\ programs_' = s.programs
              /\ Finish(c, "ok", s.result)
           \/ /\ NodesOf(programs_, k) # call[c].seen
              /\ programs_' = programs_ \cup {[key |-> k, artifact |-> call[c].built]}
              /\ Finish(c, "ok", call[c].built)
           \/ /\ NodesOf(programs_, k) # call[c].seen
              /\ programs_' = s.programs
              /\ Finish(c, "ok", s.result)
    /\ UNCHANGED <<next_pipeline, build_count, build_ok_count, last>>

-----------------------------------------------------------------------------
(***************************************************************************)
(* ShaderHelper: construction with the normalized dispatch and             *)
(* ShaderHelper::MainFunctionBody.                                         *)
(***************************************************************************)
MaxWorkgroupSize == 2   \* limits_.maxComputeWorkgroupSizeX / Y / Z
MaxInvocations   == 4   \* limits_.maxComputeInvocationsPerWorkgroup

NoHelper ==
    [status |-> "none", dispatch_group_size |-> [x |-> 0, y |-> 0, z |-> 0],
     body_ |-> "", workgroup_size |-> [x |-> 0, y |-> 0, z |-> 0], threw |-> FALSE,
     vars_ |-> [Input |-> <<>>, Output |-> <<>>, Local |-> <<>>],
     implementation_ |-> <<>>, use_f16_ |-> FALSE]

\* Dispatches requested by kernels on a device whose per-dimension limit is
\* CacheLimit; the ShaderHelper receives their normalized form.
ShaderRequests ==
    [x : 0..(CacheLimit + 1), y : 0..(CacheLimit + 1), z : 0..(CacheLimit + 1)]

WorkgroupSizes ==
    [x : 0..(MaxWorkgroupSize + 1), y : 0..(MaxWorkgroupSize + 1),
     z : 0..(MaxWorkgroupSize + 1)]

\* ShaderHelper::ShaderHelper: stores the dispatch group sizes and enforces
\* that each is positive.
ShaderHelperCtor(x, y, z) ==
    IF HelperConstructible(x, y, z)
    THEN [NoHelper EXCEPT !.status = "ready",
                          !.dispatch_group_size = [x |-> x, y |-> y, z |-> z]]
    ELSE [NoHelper EXCEPT !.status = "ctor_failed"]

\* bool is_1d_dispatch = workgroup_size_y == 1 && workgroup_size_z == 1;
Is1dDispatch(helper, workgroup_size) ==
    workgroup_size.y = 1 /\ workgroup_size.z = 1

\* the invocation limit is not enforced
MainFunctionBodyNoInvocationLimit(helper, workgroup_size) ==
    IF \/ helper.body_ # ""
       \/ ~(workgroup_size.x > 0 /\ workgroup_size.y > 0 /\ workgroup_size.z > 0)
       \/ ~(/\ workgroup_size.x <= MaxWorkgroupSize
            /\ workgroup_size.y <= MaxWorkgroupSize
            /\ workgroup_size.z <= MaxWorkgroupSize)
    THEN [helper EXCEPT !.threw = TRUE]
    ELSE [helper EXCEPT !.threw = FALSE,
                        !.workgroup_size = workgroup_size,
                        !.body_ = IF Is1dDispatch(helper, workgroup_size)
                                  THEN "global_id.x" ELSE "workgroup_id"]

\* a body that is already set is replaced
MainFunctionBodyOverwrites(helper, workgroup_size) ==
    IF \/ ~(workgroup_size.x > 0 /\ workgroup_size.y > 0 /\ workgroup_size.z > 0)
       \/ ~(/\ workgroup_size.x <= MaxWorkgroupSize
            /\ workgroup_size.y <= MaxWorkgroupSize
            /\ workgroup_size.z <= MaxWorkgroupSize)
       \/ ~(workgroup_size.x * workgroup_size.y * workgroup_size.z <= MaxInvocations)
    THEN [helper EXCEPT !.threw = TRUE]
    ELSE [helper EXCEPT !.threw = FALSE,
                        !.workgroup_size = workgroup_size,
                        !.body_ = IF Is1dDispatch(helper, workgroup_size)
                                  THEN "global_id.x" ELSE "workgroup_id"]

\* ShaderHelper::MainFunctionBody(workgroup_size, body...): the ORT_ENFORCE
\* checks throw and leave the helper as it was; otherwise constants_ gets the
\* workgroup size and body_ the entry point, which either takes global_idx
\* from global_id.x or computes it from workgroup_id and num_workgroups.
MainFunctionBody(helper, workgroup_size) ==
    IF \/ helper.body_ # ""
       \/ ~(workgroup_size.x > 0 /\ workgroup_size.y > 0 /\ workgroup_size.z > 0)
       \/ ~(/\ workgroup_size.x <= MaxWorkgroupSize
            /\ workgroup_size.y <= MaxWorkgroupSize
            /\ workgroup_size.z <= MaxWorkgroupSize)
       \/ ~(workgroup_size.x * workgroup_size.y * workgroup_size.z <= MaxInvocations)
    THEN [helper EXCEPT !.threw = TRUE]
    ELSE [helper EXCEPT !.threw = FALSE,
                        !.workgroup_size = workgroup_size,
                        !.body_ = IF Is1dDispatch(helper, workgroup_size)
                                  THEN "global_id.x" ELSE "workgroup_id"]

ConstructHelper(request) ==
    /\ sh.status = "none"
    /\ LET n == NormalizeDispatchGroupSize(request.x, request.y, request.z, CacheLimit)
       IN  /\ n.status = "ok"
           /\ sh' = ShaderHelperCtor(n.x, n.y, n.z)

CallMainFunctionBody(workgroup_size) ==
    /\ sh.status = "ready"
    /\ final_source = [status |-> "none"]
    /\ sh' = MainFunctionBody(sh, workgroup_size)
    /\ last_call' = [op |-> "MainFunctionBody", workgroup_size |-> workgroup_size]
    /\ UNCHANGED <<add_calls, final_source, overridable_constants>>


\* The global_idx the generated entry point computes for the invocation
\* local_id of workgroup workgroup_id.  The 1-D body takes global_id.x, the
\* x component of workgroup_id * workgroup_size + local_id; the other body
\* linearizes workgroup_id over num_workgroups, multiplies by the workgroup
\* size and adds local_idx, the local invocation index.
GlobalIdx(helper, workgroup_id, local_id) ==
    LET workgroup_size_x == helper.workgroup_size.x
        workgroup_size_y == helper.workgroup_size.y
        workgroup_size_z == helper.workgroup_size.z
        num_workgroups == helper.dispatch_group_size
        global_id == [x |-> workgroup_id.x * workgroup_size_x + local_id.x,
                      y |-> workgroup_id.y * workgroup_size_y + local_id.y,
                      z |-> workgroup_id.z * workgroup_size_z + local_id.z]
        local_idx == local_id.x + local_id.y * workgroup_size_x
                         + local_id.z * workgroup_size_x * workgroup_size_y
    IN  IF helper.body_ = "global_id.x"
        THEN global_id.x
        ELSE (workgroup_id.z * num_workgroups.x * num_workgroups.y
                  + workgroup_id.y * num_workgroups.x + workgroup_id.x)
                 * (workgroup_size_x * workgroup_size_y * workgroup_size_z) + local_idx

\* the invocations of a dispatch: every local id of every workgroup
Invocations(helper) ==
    [workgroup_id : [x : 0..(helper.dispatch_group_size.x - 1),
                     y : 0..(helper.dispatch_group_size.y - 1),
                     z : 0..(helper.dispatch_group_size.z - 1)],
     local_id : [x : 0..(helper.workgroup_size.x - 1),
                 y : 0..(helper.workgroup_size.y - 1),
                 z : 0..(helper.workgroup_size.z - 1)]]
-----------------------------------------------------------------------------
(***************************************************************************)
(* Uniform layout: the ProgramArtifact constructor walks the program's     *)
(* uniform variables, gives each a byte offset and rounds the final cursor *)
(* up to 16.  ShaderHelper::GetFinalSourceCode declares the same variables *)
(* as fields of the WGSL struct Uniforms.                                  *)
(***************************************************************************)
MaxUniforms      == 2    \* a program carries 0..MaxUniforms uniform variables
MaxUniformLength == 9    \* a uniform variable has up to MaxUniformLength elements

\* enum class ProgramUniformVariableDataType, by its WGSL name
ProgramUniformVariableDataType == {"f32", "f16", "u32", "i32"}

\* constexpr size_t ProgramUniformVariableDataTypeSize[]
ProgramUniformVariableDataTypeSize(data_type) == IF data_type = "f16" THEN 2 ELSE 4

\* The uniform variables a program can carry: one to MaxUniformLength
\* elements of some type, or the default-constructed empty uniform
\* (length 0, data_type{} = Float32).
UniformVariableValues ==
    [data_type : ProgramUniformVariableDataType, length : 1..MaxUniformLength]
        \cup {[data_type |-> "f32", length |-> 0]}

UniformVariableLists ==
    UNION {[1..n -> UniformVariableValues] : n \in 0..MaxUniforms}

\* what a division by base_alignment = 0 does: the build traps, or the
\* quotient comes out as 0
DivisionByZeroOutcomes == {"trap", "zero"}

NoArtifact == [status |-> "none", uniforms |-> <<>>, uniform_total_size |-> 0]

\* the alignment of one element, whatever the length
BaseAlignmentOfElement(uniform) ==
    ProgramUniformVariableDataTypeSize(uniform.data_type)

\* size_t base_alignment = is_f16 ? (length > 4 ? 16 : length > 2 ? 8 : length * element_size)
\*                                : (length > 2 ? 16 : length * element_size);
BaseAlignment(uniform) ==
    LET length == uniform.length
        element_size == ProgramUniformVariableDataTypeSize(uniform.data_type)
    IN  IF uniform.data_type = "f16"
        THEN (IF length > 4 THEN 16 ELSE IF length > 2 THEN 8 ELSE length * element_size)
        ELSE (IF length > 2 THEN 16 ELSE length * element_size)

\* the bytes of the elements themselves, without padding to 16
StructSizeUnpadded(uniform) ==
    uniform.length * ProgramUniformVariableDataTypeSize(uniform.data_type)

\* size_t struct_size = is_f16 && length <= 4 ? length * element_size : 16;
StructSize(uniform) ==
    IF uniform.data_type = "f16" /\ uniform.length <= 4
    THEN uniform.length * ProgramUniformVariableDataTypeSize(uniform.data_type)
    ELSE 16

\* size_t element_per_struct = is_f16 ? 8 : 4;
ElementPerStruct(uniform) == IF uniform.data_type = "f16" THEN 8 ELSE 4

\* every array taken as array<vec4<T>, ceil(length / 4)>, f16 included
ConsumedSizeVec4Only(uniform) ==
    IF uniform.length > 4
    THEN ((uniform.length + 3) \div 4) * StructSize(uniform)
    ELSE uniform.length * ProgramUniformVariableDataTypeSize(uniform.data_type)

\* the bytes the cursor advances by:
\* length > 4 ? (length + element_per_struct - 1) / element_per_struct * struct_size
\*            : length * element_size
ConsumedSize(uniform) ==
    IF uniform.length > 4
    THEN ((uniform.length + ElementPerStruct(uniform) - 1) \div ElementPerStruct(uniform))
             * StructSize(uniform)
    ELSE uniform.length * ProgramUniformVariableDataTypeSize(uniform.data_type)

\* rounds down instead of up
RoundDown(offset, alignment) == (offset \div alignment) * alignment

\* (offset + alignment - 1) / alignment * alignment, for alignment > 0
RoundUp(offset, alignment) == ((offset + alignment - 1) \div alignment) * alignment

\* The loop of the constructor from uniform i on, with the cursor at
\* current_offset and the entries pushed so far in entries.
RECURSIVE LayoutFrom(_, _, _, _, _)
LayoutFrom(uniforms, i, current_offset, entries, div0) ==
    IF i > Len(uniforms)
    THEN [status |-> "ok", uniforms |-> entries,
          uniform_total_size |-> RoundUp(current_offset, 16)]
    ELSE LET uniform == uniforms[i]
             base_alignment == BaseAlignment(uniform)
         IN  IF base_alignment = 0 /\ div0 = "trap"
             THEN [status |-> "division_by_zero", uniforms |-> entries,
                   uniform_total_size |-> 0]
             ELSE LET aligned == IF base_alignment = 0 THEN 0
                                 ELSE RoundUp(current_offset, base_alignment)
                  IN  LayoutFrom(uniforms, i + 1, aligned + ConsumedSize(uniform),
                                 Append(entries, [data_type |-> uniform.data_type,
                                                  offset |-> aligned,
                                                  length |-> uniform.length]),
                                 div0)

\* ProgramArtifact::ProgramArtifact: the uniform info of the artifact
ProgramArtifactCtor(uniforms, div0) == LayoutFrom(uniforms, 1, 0, <<>>, div0)

\* The field that GetFinalSourceCode declares in struct Uniforms for a
\* uniform of the given type and size: "@align(16) " for f16 with size > 4,
\* array<mat2x4<f16>, (size + 7) / 8>, array<vec4<T>, (size + 3) / 4>,
\* vecN<T> for size 2..4, and T otherwise.
UniformField(uniform) ==
    LET size == uniform.length
        type == uniform.data_type
    IN  [align16 |-> (type = "f16" /\ size > 4),
         repr    |-> IF size > 4
                     THEN (IF type = "f16" THEN "array<mat2x4>" ELSE "array<vec4>")
                     ELSE IF size > 1 THEN "vec" ELSE "scalar",
         type    |-> type,
         count   |-> IF size > 4
                     THEN (IF type = "f16" THEN (size + 7) \div 8 ELSE (size + 3) \div 4)
                     ELSE IF size > 1 THEN size ELSE 1]

\* WGSL AlignOf (https://www.w3.org/TR/WGSL/#alignof) of a declared field:
\* a scalar aligns to its size, vec2<T> to 2 * SizeOf(T), vec3<T> and vec4<T>
\* to 4 * SizeOf(T), an array to its element (vec4<T> or mat2x4<f16>, whose
\* alignment is that of its vec4<f16> columns); @align(16) raises it to 16.
WgslAlignOf(field) ==
    LET scalar == ProgramUniformVariableDataTypeSize(field.type)
        natural == IF field.repr = "scalar" THEN scalar
                   ELSE IF field.repr = "vec"
                        THEN (IF field.count = 2 THEN 2 * scalar ELSE 4 * scalar)
                        ELSE 4 * scalar
    IN  IF field.align16 THEN 16 ELSE natural

\* WGSL SizeOf: scalar, vecN<T> = N * SizeOf(T), array<E, N> = N * stride with
\* stride = roundUp(AlignOf(E), SizeOf(E)); SizeOf(vec4<T>) = 4 * SizeOf(T),
\* SizeOf(mat2x4<f16>) = 2 columns of vec4<f16> = 16.
WgslSizeOf(field) ==
    LET scalar == ProgramUniformVariableDataTypeSize(field.type)
        element_size == IF field.repr = "array<mat2x4>" THEN 2 * (4 * scalar) ELSE 4 * scalar
        element_align == 4 * scalar
    IN  IF field.repr = "scalar" THEN scalar
        ELSE IF field.repr = "vec" THEN field.count * scalar
        ELSE field.count * RoundUp(element_size, element_align)

\* WGSL struct layout: the offset of member i is the end of member i - 1
\* rounded up to AlignOf(member i); the first member is at offset 0.
RECURSIVE WgslOffsetOfMember(_, _)
WgslOffsetOfMember(fields, i) ==
    IF i = 1 THEN 0
    ELSE RoundUp(WgslOffsetOfMember(fields, i - 1) + WgslSizeOf(fields[i - 1]),
                 WgslAlignOf(fields[i]))

\* AlignOf(S) = max over the members; SizeOf(S) = roundUp(AlignOf(S), end of last member)
WgslAlignOfStruct(fields) ==
    CHOOSE a \in {WgslAlignOf(fields[i]) : i \in 1..Len(fields)} :
        \A i \in 1..Len(fields) : WgslAlignOf(fields[i]) <= a

WgslSizeOfStruct(fields) ==
    RoundUp(WgslOffsetOfMember(fields, Len(fields)) + WgslSizeOf(fields[Len(fields)]),
            WgslAlignOfStruct(fields))

\* the fields of struct Uniforms, in the order GetFinalSourceCode emits them
UniformsStruct(uniforms) == [i \in 1..Len(uniforms) |-> UniformField(uniforms[i])]

LayoutIdle == uniform_variables = <<>> /\ program_artifact = NoArtifact

(***************************************************************************)
(* SpecLayout: a program with some uniform variables is given to the       *)
(* ProgramArtifact constructor once.                                       *)
(***************************************************************************)
ConstructArtifact ==
    /\ program_artifact = NoArtifact
    /\ \E div0 \in DivisionByZeroOutcomes :
           program_artifact' = ProgramArtifactCtor(uniform_variables, div0)
    /\ UNCHANGED uniform_variables

-----------------------------------------------------------------------------
(***************************************************************************)
(* Shader source: ShaderHelper::AddVariable, AppendImplementation and      *)
(* GetFinalSourceCode.  The generated text is kept as a record of its      *)
(* sections: the f16 directive, the storage bindings in the order they are *)
(* written, the fields of struct Uniforms with the binding of the uniform  *)
(* block, the appended implementation and the entry point.                 *)
(***************************************************************************)
MaxStorageBuffers == 3   \* limits_.maxStorageBuffersPerShaderStage
MaxImplementations == 2  \* a kernel appends 0..MaxImplementations fragments

\* enum class ShaderVariableScope
ShaderVariableScope == {"Input", "Output", "Local"}

\* ToShaderVariableDataType(element_type, component) for the ONNX element
\* types float (1), int32 (6), int64 (7), bool (9), float16 (10),
\* uint32 (12), uint64 (13); anything else is invalid_type
ToShaderVariableDataType(element_type, component) ==
    IF component = 1
    THEN CASE element_type = 1  -> "f32"
           [] element_type = 10 -> "f16"
           [] element_type = 6  -> "i32"
           [] element_type = 12 -> "u32"
           [] element_type = 7  -> "int64"
           [] element_type = 13 -> "uint64"
           [] OTHER -> "invalid_type"
    ELSE IF component = 2
    THEN CASE element_type = 1  -> "vec2f32"
           [] element_type = 10 -> "vec2f16"
           [] element_type = 6  -> "vec2i32"
           [] element_type = 12 -> "vec2u32"
           [] OTHER -> "invalid_type"
    ELSE IF component = 4
    THEN CASE element_type = 1  -> "vec4f32"
           [] element_type = 10 -> "vec4f16"
           [] element_type = 6  -> "vec4i32"
           [] element_type = 12 -> "vec4u32"
           [] element_type = 9  -> "vec4bool"
           [] OTHER -> "invalid_type"
    ELSE "invalid_type"

\* ShaderVariable::StorageType(): STORAGE_TYPE[type_]
StorageType(type) ==
    CASE type = "f32" -> "f32"
      [] type = "vec2f32" -> "vec2<f32>"
      [] type = "vec4f32" -> "vec4<f32>"
      [] type = "f16" -> "f16"
      [] type = "vec2f16" -> "vec2<f16>"
      [] type = "vec4f16" -> "vec4<f16>"
      [] type = "i32" -> "i32"
      [] type = "vec2i32" -> "vec2<i32>"
      [] type = "vec4i32" -> "vec4<i32>"
      [] type = "u32" -> "u32"
      [] type = "vec2u32" -> "vec2<u32>"
      [] type = "vec4u32" -> "vec4<u32>"
      [] type = "int64" -> "vec2<u32>"
      [] type = "uint64" -> "vec2<u32>"
      [] type = "vec4bool" -> "u32"

\* one variable more than the limit is taken
AddVariableOffByOne(helper, scope, name, type) ==
    IF \/ scope \notin {"Input", "Output"}
       \/ ~(Len(helper.vars_["Input"]) + Len(helper.vars_["Output"]) <= MaxStorageBuffers)
       \/ type = "invalid_type"
    THEN [helper EXCEPT !.threw = TRUE]
    ELSE [helper EXCEPT !.threw = FALSE,
                        !.use_f16_ = helper.use_f16_ \/ type \in {"f16", "vec2f16", "vec4f16"},
                        !.vars_[scope] = Append(helper.vars_[scope],
                                                [name_ |-> name, type_ |-> type])]

\* ShaderHelper::AddVariable -> AddVariableImpl: enforces an Input or Output
\* scope and fewer than maxStorageBuffersPerShaderStage variables so far,
\* notes the use of f16, and appends ShaderVariable(name, type) to
\* vars_[scope]; the ShaderVariable constructor throws for invalid_type.
AddVariable(helper, scope, name, type) ==
    IF \/ scope \notin {"Input", "Output"}
       \/ ~(Len(helper.vars_["Input"]) + Len(helper.vars_["Output"]) < MaxStorageBuffers)
       \/ type = "invalid_type"
    THEN [helper EXCEPT !.threw = TRUE]
    ELSE [helper EXCEPT !.threw = FALSE,
                        !.use_f16_ = helper.use_f16_ \/ type \in {"f16", "vec2f16", "vec4f16"},
                        !.vars_[scope] = Append(helper.vars_[scope],
                                                [name_ |-> name, type_ |-> type])]

\* ShaderHelper::AppendImplementation: implementation_.push_back(impl)
AppendImplementation(helper, impl) ==
    [helper EXCEPT !.implementation_ = Append(helper.implementation_, impl)]

\* every list of declarations numbered from 0, whatever came before it
DeclareVariablesFromZero(variables, access, variable_count) ==
    [i \in 1..Len(variables) |->
        [binding |-> i - 1, access |-> access, name |-> variables[i].name_,
         storage_type |-> StorageType(variables[i].type_)]]

\* one loop of GetFinalSourceCode over vars_[scope]:
\* "@group(0) @binding(" << variable_count++ << ") var<storage, access> "
\*     << Name() << ": array<" << StorageType() << ">;"
DeclareVariables(variables, access, variable_count) ==
    [i \in 1..Len(variables) |->
        [binding |-> variable_count + i - 1, access |-> access, name |-> variables[i].name_,
         storage_type |-> StorageType(variables[i].type_)]]

NoUniformBlock == [present |-> FALSE, fields |-> <<>>, binding |-> -1]

NoSource == [status |-> "none"]

\* the sections written in the order the kernel supplied them: the entry
\* point and the fragments come before the declarations
SourceSectionsBodyFirst(enable, constants, inputs, outputs, uniforms, implementation, body) ==
    enable \o constants \o body \o implementation \o inputs \o outputs \o uniforms

\* the order in which GetFinalSourceCode writes to its stream: feature
\* enabling, constants, input variables, output variables, uniform
\* variables, additional implementation, main function body
SourceSections(enable, constants, inputs, outputs, uniforms, implementation, body) ==
    enable \o constants \o inputs \o outputs \o uniforms \o implementation \o body

\* ShaderHelper::GetFinalSourceCode for a program with the given uniform
\* variables on a device with or without the ShaderF16 feature: the f16
\* directive (the enforce throws without the feature), the inputs and then
\* the outputs as storage bindings numbered by variable_count, struct
\* Uniforms and its binding variable_count when the program has uniforms,
\* the appended implementation, and body_.
GetFinalSourceCode(helper, uniforms, has_shader_f16) ==
    IF helper.use_f16_ /\ ~has_shader_f16
    THEN [status |-> "threw"]
    ELSE LET inputs == DeclareVariables(helper.vars_["Input"], "read", 0)
             outputs == DeclareVariables(helper.vars_["Output"], "read_write", Len(inputs))
             variable_count == Len(inputs) + Len(outputs)
             Sections(label, texts) ==
                 [i \in 1..Len(texts) |-> [section |-> label, text |-> texts[i]]]
             fields == [i \in 1..Len(uniforms) |->
                           [name |-> uniforms[i].name, field |-> UniformField(uniforms[i])]]
         IN  [status |-> "ok",
              sections |->
                  SourceSections(
                      IF helper.use_f16_ THEN Sections("enable", <<"enable f16;">>) ELSE <<>>,
                      Sections("constants", <<"WORKGROUP_SIZE", "workgroup_size_x",
                                              "workgroup_size_y", "workgroup_size_z">>),
                      Sections("input", inputs),
                      Sections("output", outputs),
                      IF Len(uniforms) = 0 THEN <<>>
                      ELSE Sections("uniforms", <<fields, variable_count>>),
                      Sections("implementation", helper.implementation_),
                      Sections("body", <<helper.body_>>)),
              enable_f16 |-> helper.use_f16_,
              variables |-> inputs \o outputs,
              uniforms |-> IF Len(uniforms) = 0 THEN NoUniformBlock
                           ELSE [present |-> TRUE, fields |-> fields,
                                 binding |-> variable_count],
              implementation |-> helper.implementation_,
              body |-> helper.body_]

\* MainFunctionBody(body...) without a workgroup size uses
\* {WORKGROUP_SIZE, 1, 1}; WORKGROUP_SIZE (64) is within the limits of every
\* device and is represented by the largest size the modelled device allows
DefaultWorkgroupSize == [x |-> MaxWorkgroupSize, y |-> 1, z |-> 1]

\* UnaryElementwiseProgramInfo::GenerateShaderCode: input "x" and output "y"
\* as 4-component vectors of the element types of the first input and the
\* first output tensor, the additional implementation, and the entry point.
GenerateShaderCode(helper, program) ==
    LET with_x == AddVariable(helper, "Input", "x",
                              ToShaderVariableDataType(program.inputs[1].tensor.element_type, 4))
        with_y == AddVariable(with_x, "Output", "y",
                              ToShaderVariableDataType(program.outputs[1], 4))
        with_impl == AppendImplementation(with_y, "")
    IN  IF with_x.threw THEN with_x
        ELSE IF with_y.threw THEN with_y
        ELSE MainFunctionBody(with_impl, DefaultWorkgroupSize)

\* ProgramManager::Build up to the shader text: a helper for the normalized
\* dispatch, the program's GenerateShaderCode, then GetFinalSourceCode; an
\* exception of any of them ends the build.
BuildSource(program, has_shader_f16) ==
    LET helper == IF program.is_1d_dispatch THEN ShaderHelperCtor(1, 1, 1)
                  ELSE ShaderHelperCtor(1, 2, 1)
        generated == GenerateShaderCode(helper, program)
    IN  IF generated.threw THEN [status |-> "threw"]
        ELSE GetFinalSourceCode(generated, program.variables, has_shader_f16)

(***************************************************************************)
(* SpecSource: a constructed helper takes AddVariable calls with any scope *)
(* in any order and is then asked for the source.                          *)
(***************************************************************************)
\* names and types given to AddVariable
VariableNames == {"x", "y"}
VariableTypes == {"f32", "vec4f16", "invalid_type"}

\* uniform variables of the programs whose source is generated
SourceUniformLists ==
    {<<>>,
     <<[name |-> "vec_size", data_type |-> "u32", length |-> 1]>>,
     <<[name |-> "scale", data_type |-> "f16", length |-> 5],
       [name |-> "vec_size", data_type |-> "u32", length |-> 1]>>}

NoHelperCall == [op |-> "none"]

\* WEBGPU_PROGRAM_DEFINE_OVERRIDABLE_CONSTANTS(...): the definitions a program
\* class declares, with or without a default value
OverridableConstantLists ==
    {<<>>,
     <<[name |-> "tile", type |-> "u32", has_default_value |-> TRUE, value |-> 4],
       [name |-> "alpha", type |-> "f32", has_default_value |-> FALSE, value |-> 0]>>}

HelperIdle == add_calls = <<>> /\ final_source = NoSource /\ last_call = NoHelperCall

SourceIdle == HelperIdle /\ overridable_constants = <<>>

CallAddVariable(scope, name, type) ==
    /\ sh.status = "ready"
    /\ final_source = NoSource
    /\ sh' = AddVariable(sh, scope, name, type)
    /\ add_calls' = IF sh'.threw THEN add_calls
                    ELSE Append(add_calls, [scope |-> scope, name |-> name, type |-> type])
    /\ last_call' = [op |-> "AddVariable", scope |-> scope, name |-> name, type |-> type]
    /\ UNCHANGED <<final_source, overridable_constants>>

\* implementation_ has no limit of its own; the helpers of the model take up
\* to MaxImplementations fragments
CallAppendImplementation(impl) ==
    /\ sh.status = "ready"
    /\ final_source = NoSource
    /\ Len(sh.implementation_) < MaxImplementations
    /\ sh' = AppendImplementation(sh, impl)
    /\ last_call' = [op |-> "AppendImplementation", impl |-> impl]
    /\ UNCHANGED <<add_calls, final_source, overridable_constants>>

CallGetFinalSourceCode ==
    /\ sh.status = "ready"
    /\ final_source = NoSource
    /\ \E has_shader_f16 \in BOOLEAN :
           /\ final_source' = GetFinalSourceCode(sh, uniform_variables, has_shader_f16)
           /\ last_call' = [op |-> "GetFinalSourceCode", has_shader_f16 |-> has_shader_f16]
    /\ UNCHANGED <<sh, add_calls, overridable_constants>>

-----------------------------------------------------------------------------
(***************************************************************************)
(* Cache key: CalculateProgramCacheKey(program, is_1d_dispatch).  The key  *)
(* is kept as the sequence of its characters, so that what the separators  *)
(* do and do not keep apart is visible.                                    *)
(***************************************************************************)
MaxKeyUniforms == 2   \* the programs of SpecKey carry 0..MaxKeyUniforms uniforms

\* operator<< for an unsigned integer: its decimal digits
RECURSIVE ToDecimal(_)
ToDecimal(n) ==
    LET digit(d) == <<"0", "1", "2", "3", "4", "5", "6", "7", "8", "9">>[d + 1]
    IN  IF n < 10 THEN <<digit(n)>> ELSE ToDecimal(n \div 10) \o <<digit(n % 10)>>

\* TensorShape::ToString(): "{d0,d1,...}"
RECURSIVE JoinDims(_)
JoinDims(dims) ==
    IF Len(dims) = 0 THEN <<>>
    ELSE IF Len(dims) = 1 THEN ToDecimal(dims[1])
    ELSE ToDecimal(dims[1]) \o <<",">> \o JoinDims(Tail(dims))

ShapeToString(shape) == <<"{">> \o JoinDims(shape) \o <<"}">>

\* enum class ProgramInputTensorDependency as the set of its bits
\* (Type = 1, Rank = 2, Shape = 4, combined with operator|)
ProgramInputTensorDependency == SUBSET {"Type", "Rank", "Shape"}

\* program.Name(): kernel names
ProgramNames == {<<"A">>, <<"A", "b">>}

\* program.CacheHint(): empty, or the hint arguments joined with "|"
CacheHints == {<<>>, <<"h", "|", "2">>}

\* the element counts of a program's uniform variables; 0 is the
\* default-constructed empty uniform
KeyUniformLengths == {0, 1}

\* a uniform variable of a keyed program: the kernel's vec_size, or the
\* default-constructed empty uniform
KeyUniformValue(length) ==
    IF length = 0 THEN [name |-> "", data_type |-> "f32", length |-> 0]
    ELSE [name |-> "vec_size", data_type |-> "u32", length |-> length]


\* all short lists of those, and lists whose counts need one and two digits
KeyUniformLists ==
    {[i \in 1..Len(lengths) |-> KeyUniformValue(lengths[i])] :
        lengths \in UNION {[1..n -> KeyUniformLengths] : n \in 0..MaxKeyUniforms}
                        \cup {<<2>>, <<12>>, <<1, 2>>}}
        \cup {<<[name |-> "vec_size", data_type |-> "f32", length |-> 1]>>,
              <<[name |-> "size", data_type |-> "u32", length |-> 1]>>}

\* input tensors: ONNX element type (1 = float, 10 = float16) and shape
KeyTensors ==
    [element_type : {1}, shape : {<<6>>, <<2, 3>>, <<3, 2>>}]
        \cup {[element_type |-> 10, shape |-> <<2, 3>>]}

KeyInputs == [tensor : KeyTensors, dependency : ProgramInputTensorDependency]

\* no input, any one input, or a float input that depends on the type
\* followed by an input that depends on nothing
KeyInputLists ==
    {<<>>} \cup {<<input>> : input \in KeyInputs}
           \cup {<<[tensor |-> [element_type |-> 1, shape |-> <<6>>], dependency |-> {"Type"}],
                   [tensor |-> tensor, dependency |-> {}]>> : tensor \in KeyTensors}

\* output tensors: the element type of each
KeyOutputLists == {<<1>>, <<10>>}

\* The programs a kernel hands over, with the 1-D flag of their dispatch.
KeyRequests ==
    [name : ProgramNames, cache_hint : CacheHints, is_1d_dispatch : BOOLEAN,
     variables : KeyUniformLists, inputs : KeyInputLists, outputs : {<<1>>}]

\* if (!hint.empty()) ss << "[" << program.CacheHint() << "]";
HintInfo(cache_hint) ==
    IF cache_hint = <<>> THEN <<>> ELSE <<"[">> \o cache_hint \o <<"]">>

\* uniforms joined with "|"; a uniform of length 0 contributes nothing
RECURSIVE UniformsInfo(_)
UniformsInfo(variables) ==
    IF Len(variables) = 0 THEN <<>>
    ELSE LET n == Len(variables)
             length == variables[n].length
             this == IF length > 0 THEN ToDecimal(length) ELSE <<>>
         IN  IF n = 1 THEN this
             ELSE UniformsInfo(SubSeq(variables, 1, n - 1)) \o <<"|">> \o this

\* the element type is written whatever the dependency says
InputInfoAlwaysType(input) ==
    ToDecimal(input.tensor.element_type)
        \o <<";">>
        \o (IF "Rank" \in input.dependency THEN ToDecimal(Len(input.tensor.shape))
            ELSE IF "Shape" \in input.dependency THEN ShapeToString(input.tensor.shape)
            ELSE <<>>)

\* <TENSOR_ELEMENT_TYPE_OR_EMPTY>;<TENSOR_SHAPE_OR_RANK_OR_EMPTY>: the type if
\* the Type bit is set, ";", then the rank if the Rank bit is set, else the
\* shape if the Shape bit is set
InputInfo(input) ==
    (IF "Type" \in input.dependency THEN ToDecimal(input.tensor.element_type) ELSE <<>>)
        \o <<";">>
        \o (IF "Rank" \in input.dependency THEN ToDecimal(Len(input.tensor.shape))
            ELSE IF "Shape" \in input.dependency THEN ShapeToString(input.tensor.shape)
            ELSE <<>>)

\* inputs joined with "|"
RECURSIVE InputsInfo(_)
InputsInfo(inputs) ==
    IF Len(inputs) = 0 THEN <<>>
    ELSE LET n == Len(inputs)
         IN  IF n = 1 THEN InputInfo(inputs[1])
             ELSE InputsInfo(SubSeq(inputs, 1, n - 1)) \o <<"|">> \o InputInfo(inputs[n])

\* <PROGRAM_NAME>[<HINT>]:is1DimensionDispatch:<UNIFORMS>:<INPUTS_INFO>
CalculateProgramCacheKey(program, is_1d_dispatch) ==
    program.name
        \o HintInfo(program.cache_hint)
        \o <<":">> \o (IF is_1d_dispatch THEN <<"1">> ELSE <<"0">>) \o <<":">>
        \o UniformsInfo(program.variables)
        \o <<":">>
        \o InputsInfo(program.inputs)

NoKeys == <<>>

NoSources == <<>>

KeyIdle ==
    LET idle == [name |-> <<"A">>, cache_hint |-> <<>>, is_1d_dispatch |-> TRUE,
                 variables |-> <<>>, inputs |-> <<>>, outputs |-> <<1>>]
    IN  key_requests = <<idle, idle>> /\ cache_keys = NoKeys /\ shader_sources = NoSources

(***************************************************************************)
(* SpecKey: two key requests, the second being the first with at most one  *)
(* of its fields replaced, are each given to CalculateProgramCacheKey.     *)
(***************************************************************************)
VaryName(name) ==
    /\ cache_keys = NoKeys /\ key_requests[2] = key_requests[1]
    /\ key_requests' = [key_requests EXCEPT ![2].name = name]
    /\ UNCHANGED <<cache_keys, shader_sources>>

VaryCacheHint(cache_hint) ==
    /\ cache_keys = NoKeys /\ key_requests[2] = key_requests[1]
    /\ key_requests' = [key_requests EXCEPT ![2].cache_hint = cache_hint]
    /\ UNCHANGED <<cache_keys, shader_sources>>

VaryDispatch ==
    /\ cache_keys = NoKeys /\ key_requests[2] = key_requests[1]
    /\ key_requests' = [key_requests EXCEPT ![2].is_1d_dispatch = ~key_requests[1].is_1d_dispatch]
    /\ UNCHANGED <<cache_keys, shader_sources>>

VaryUniformVariables(variables) ==
    /\ cache_keys = NoKeys /\ key_requests[2] = key_requests[1]
    /\ key_requests' = [key_requests EXCEPT ![2].variables = variables]
    /\ UNCHANGED <<cache_keys, shader_sources>>

VaryInputs(inputs) ==
    /\ cache_keys = NoKeys /\ key_requests[2] = key_requests[1]
    /\ key_requests' = [key_requests EXCEPT ![2].inputs = inputs]
    /\ UNCHANGED <<cache_keys, shader_sources>>

VaryOutputs(outputs) ==
    /\ cache_keys = NoKeys /\ key_requests[2] = key_requests[1]
    /\ key_requests' = [key_requests EXCEPT ![2].outputs = outputs]
    /\ UNCHANGED <<cache_keys, shader_sources>>

CalculateKeys ==
    /\ cache_keys = NoKeys
    /\ cache_keys' = <<CalculateProgramCacheKey(key_requests[1], key_requests[1].is_1d_dispatch),
                      CalculateProgramCacheKey(key_requests[2], key_requests[2].is_1d_dispatch)>>
    /\ UNCHANGED <<key_requests, shader_sources>>

\* After the keys, both programs are built as unary elementwise programs on
\* one device; the kind reads its first input and its first output.
BuildSources ==
    /\ cache_keys # NoKeys
    /\ shader_sources = NoSources
    /\ \A r \in 1..2 : Len(key_requests[r].inputs) >= 1 /\ Len(key_requests[r].outputs) >= 1
    /\ \E has_shader_f16 \in BOOLEAN :
           shader_sources' = <<BuildSource(key_requests[1], has_shader_f16),
                               BuildSource(key_requests[2], has_shader_f16)>>
    /\ UNCHANGED <<key_requests, cache_keys>>

-----------------------------------------------------------------------------
(***************************************************************************)
(* The specifications.                                                     *)
(***************************************************************************)
Init == NormIdle /\ CacheInit /\ sh = NoHelper /\ LayoutIdle /\ KeyIdle /\ SourceIdle

Next ==
    \/ \E key \in Keys : ApiGet(key) /\ UNCHANGED <<normVars, shVars, layoutVars, keyVars, sourceVars>>
    \/ \E key \in Keys : ApiSet(key) /\ UNCHANGED <<normVars, shVars, layoutVars, keyVars, sourceVars>>
    \/ \E request \in CacheRequests : ApiGetOrBuild(request) /\ UNCHANGED <<normVars, shVars, layoutVars, keyVars, sourceVars>>

Spec == Init /\ [][Next]_vars

NextConcurrent ==
    \E c \in Callers :
        \/ \E request \in CacheRequests : Begin(c, request) /\ UNCHANGED <<normVars, shVars, layoutVars, keyVars, sourceVars>>
        \/ StepGet(c) /\ UNCHANGED <<normVars, shVars, layoutVars, keyVars, sourceVars>>
        \/ StepNormalize(c) /\ UNCHANGED <<normVars, shVars, layoutVars, keyVars, sourceVars>>
        \/ StepBuildBegin(c) /\ UNCHANGED <<normVars, shVars, layoutVars, keyVars, sourceVars>>
        \/ StepBuildEnd(c) /\ UNCHANGED <<normVars, shVars, layoutVars, keyVars, sourceVars>>
        \/ StepSetLookup(c) /\ UNCHANGED <<normVars, shVars, layoutVars, keyVars, sourceVars>>
        \/ StepSetLink(c) /\ UNCHANGED <<normVars, shVars, layoutVars, keyVars, sourceVars>>

SpecConcurrent == Init /\ [][NextConcurrent]_vars

InitNormalize ==
    /\ dispatch \in Requests
    /\ normalized = NoResult
    /\ CacheInit
    /\ sh = NoHelper
    /\ LayoutIdle
    /\ KeyIdle
    /\ SourceIdle

NextNormalize == Normalize /\ UNCHANGED <<cacheVars, shVars, layoutVars, keyVars, sourceVars>>

SpecNormalize == InitNormalize /\ [][NextNormalize]_vars

NextShader ==
    \/ \E request \in ShaderRequests : ConstructHelper(request) /\ UNCHANGED <<normVars, cacheVars, layoutVars, keyVars, sourceVars>>
    \/ \E workgroup_size \in WorkgroupSizes :
           CallMainFunctionBody(workgroup_size) /\ UNCHANGED <<normVars, cacheVars, layoutVars, keyVars>>

SpecShader == Init /\ [][NextShader]_vars

InitLayout ==
    /\ NormIdle
    /\ CacheInit
    /\ sh = NoHelper
    /\ uniform_variables \in UniformVariableLists
    /\ program_artifact = NoArtifact
    /\ KeyIdle
    /\ SourceIdle

NextLayout == ConstructArtifact /\ UNCHANGED <<normVars, cacheVars, shVars, keyVars, sourceVars>>

SpecLayout == InitLayout /\ [][NextLayout]_vars

InitKey ==
    /\ NormIdle
    /\ CacheInit
    /\ sh = NoHelper
    /\ LayoutIdle
    /\ \E request \in KeyRequests : key_requests = <<request, request>>
    /\ cache_keys = NoKeys
    /\ shader_sources = NoSources
    /\ SourceIdle

NextKey ==
    \/ \E name \in ProgramNames : VaryName(name) /\ UNCHANGED <<normVars, cacheVars, shVars, layoutVars, sourceVars>>
    \/ \E cache_hint \in CacheHints :
           VaryCacheHint(cache_hint) /\ UNCHANGED <<normVars, cacheVars, shVars, layoutVars, sourceVars>>
    \/ VaryDispatch /\ UNCHANGED <<normVars, cacheVars, shVars, layoutVars, sourceVars>>
    \/ \E variables \in KeyUniformLists :
           VaryUniformVariables(variables) /\ UNCHANGED <<normVars, cacheVars, shVars, layoutVars, sourceVars>>
    \/ \E inputs \in KeyInputLists :
           VaryInputs(inputs) /\ UNCHANGED <<normVars, cacheVars, shVars, layoutVars, sourceVars>>
    \/ \E outputs \in KeyOutputLists :
           VaryOutputs(outputs) /\ UNCHANGED <<normVars, cacheVars, shVars, layoutVars, sourceVars>>
    \/ CalculateKeys /\ UNCHANGED <<normVars, cacheVars, shVars, layoutVars, sourceVars>>
    \/ BuildSources /\ UNCHANGED <<normVars, cacheVars, shVars, layoutVars, sourceVars>>

SpecKey == InitKey /\ [][NextKey]_vars

\* helpers are built for these dispatches
SourceDispatches == {[x |-> 1, y |-> 1, z |-> 1], [x |-> 2, y |-> 2, z |-> 1]}

InitSource ==
    /\ NormIdle
    /\ CacheInit
    /\ sh = NoHelper
    /\ uniform_variables \in SourceUniformLists
    /\ program_artifact = NoArtifact
    /\ KeyIdle
    /\ SourceIdle

NextSource ==
    \/ \E request \in SourceDispatches :
           ConstructHelper(request) /\ UNCHANGED <<normVars, cacheVars, layoutVars, keyVars, sourceVars>>
    \/ \E scope \in ShaderVariableScope, name \in VariableNames, type \in VariableTypes :
           CallAddVariable(scope, name, type) /\ UNCHANGED <<normVars, cacheVars, layoutVars, keyVars>>
    \/ CallGetFinalSourceCode /\ UNCHANGED <<normVars, cacheVars, layoutVars, keyVars>>

SpecSource == InitSource /\ [][NextSource]_vars

\* SpecGenerate: a kernel's GenerateShaderCode calls AddVariable,
\* AppendImplementation and MainFunctionBody in any order and any number of
\* times, and the source is then taken with GetFinalSourceCode.
GenerateWorkgroupSizes ==
    {[x |-> 1, y |-> 1, z |-> 1], [x |-> 1, y |-> 2, z |-> 1], [x |-> 0, y |-> 1, z |-> 1]}

Implementations == {"fn f() {}", "fn g() {}"}

InitGenerate ==
    /\ NormIdle
    /\ CacheInit
    /\ sh = NoHelper
    /\ uniform_variables \in SourceUniformLists
    /\ program_artifact = NoArtifact
    /\ KeyIdle
    /\ HelperIdle
    /\ overridable_constants \in OverridableConstantLists

NextGenerate ==
    \/ ConstructHelper([x |-> 1, y |-> 1, z |-> 1])
           /\ UNCHANGED <<normVars, cacheVars, layoutVars, keyVars, sourceVars>>
    \/ \E scope \in {"Input", "Output"}, type \in {"f32", "vec4f16"} :
           CallAddVariable(scope, "x", type) /\ UNCHANGED <<normVars, cacheVars, layoutVars, keyVars>>
    \/ \E impl \in Implementations :
           CallAppendImplementation(impl) /\ UNCHANGED <<normVars, cacheVars, layoutVars, keyVars>>
    \/ \E workgroup_size \in GenerateWorkgroupSizes :
           CallMainFunctionBody(workgroup_size) /\ UNCHANGED <<normVars, cacheVars, layoutVars, keyVars>>
    \/ CallGetFinalSourceCode /\ UNCHANGED <<normVars, cacheVars, layoutVars, keyVars>>

SpecGenerate == InitGenerate /\ [][NextGenerate]_vars


-----------------------------------------------------------------------------
(***************************************************************************)
(* Properties.                                                             *)
(***************************************************************************)

\* C1 (as claimed): over any sequence of get-or-build calls, Build is entered
\* at most once per key and all successful calls for a key return the same
\* artifact.
C1_BuildRunsAtMostOncePerKey ==
    \A k \in Keys : build_count[k] <= 1 /\ Cardinality(returned[k]) <= 1

\* C1 (amended): Build returns successfully at most once per key, a call that
\* finds the key stored runs no Build and returns the stored artifact, and all
\* successful get-or-build calls for a key return the same artifact instance.
C1_SuccessfulBuildAtMostOncePerKey ==
    /\ \A k \in Keys : build_ok_count[k] <= 1 /\ Cardinality(returned[k]) <= 1
    /\ (last.op = "GetOrBuild" /\ NodesOf(last.before, last.key) # {})
          => /\ build_count = last.builds_before
             /\ last.status = "ok"
             /\ [key |-> last.key, artifact |-> last.result] \in last.before

\* a get-or-build call that hit the artifact an earlier call built
C1_Witness ==
    /\ last.op = "GetOrBuild"
    /\ last.status = "ok"
    /\ build_ok_count[last.key] = 1
    /\ build_count = last.builds_before
    /\ returned[last.key] = {last.result}

\* C2 (as claimed): at most one caller is inside Build for a given key at any
\* time.
C2_OneBuilderPerKey ==
    \A k \in Keys :
        Cardinality({c \in Callers : pc[c] = "building" /\ call[c].request.key = k}) <= 1

\* C3 (as claimed): all callers that returned successfully for the same key
\* hold the same artifact, and it is the one stored under the key.
C3_SameArtifactForAll ==
    \A c1, c2 \in Callers :
        (/\ pc[c1] = "done" /\ call[c1].status = "ok"
         /\ pc[c2] = "done" /\ call[c2].status = "ok"
         /\ call[c1].request.key = call[c2].request.key)
            => /\ call[c1].result = call[c2].result
               /\ NodesOf(programs_, call[c1].request.key)
                      = {[key |-> call[c1].request.key, artifact |-> call[c1].result]}

\* C4 (as claimed): when normalization, generation or compilation fails in a
\* get-or-build call, the caller gets the failure and the cache is as it was
\* before the call, with the key still absent.
C4_FailureLeavesCacheUnchanged ==
    (last.op = "GetOrBuild" /\ last.failed # "none")
        => /\ last.status = "error"
           /\ programs_ = last.before
           /\ NodesOf(programs_, last.key) = {}

\* C5: Get returns the stored artifact or nullptr and changes neither the
\* cache nor the number of builds.
C5_GetIsReadOnly ==
    (last.op = "Get")
        => /\ programs_ = last.before
           /\ build_count = last.builds_before
           /\ IF \E n \in last.before : n.key = last.key
              THEN [key |-> last.key, artifact |-> last.result] \in last.before
              ELSE last.result = Absent

\* a Get that hit and a cache that holds another key as well
C5_Witness ==
    /\ last.op = "Get"
    /\ last.result # Absent
    /\ Cardinality(programs_) = 2

\* C6: an entry that was in the cache before a call is still the only entry
\* of its key after it, Get returns it, and Set on a stored key changes
\* nothing and returns the stored artifact.
C6_EntriesNeverReplaced ==
    /\ \A n \in last.before :
          /\ NodesOf(programs_, n.key) = {n}
          /\ Get(programs_, n.key).results = {n.artifact}
    /\ (last.op = "Set" /\ NodesOf(last.before, last.key) # {})
          => /\ programs_ = last.before
             /\ [key |-> last.key, artifact |-> last.result] \in last.before

\* Set on a key that already holds an artifact, with a different artifact
C6_Witness ==
    /\ last.op = "Set"
    /\ NodesOf(last.before, last.key) # {}
    /\ last.result.pipeline < next_pipeline - 1

\* C7 (as claimed): an accepted result keeps every dimension within the limit
\* and covers at least the requested number of groups; a request is rejected
\* only when limit^3 < x*y*z, that is when the ceiling cube root of x*y*z
\* exceeds the limit.
C7_NormalizedWithinLimitAndCovers ==
    (normalized.status # "none")
        => LET size == BigMul(BigMul(BigOf(dispatch.x), BigOf(dispatch.y)), BigOf(dispatch.z))
           IN  IF normalized.status = "ok"
               THEN /\ normalized.x <= dispatch.limit
                    /\ normalized.y <= dispatch.limit
                    /\ normalized.z <= dispatch.limit
                    /\ BigLeq(size, BigMul(BigMul(BigOf(normalized.x), BigOf(normalized.y)),
                                           BigOf(normalized.z)))
               ELSE BigLess(BigPow(dispatch.limit, 3), size)

\* C8: a request with every dimension within the limit comes back unchanged
\* ((2, 1, 1) under limit 65535 stays (2, 1, 1)), and normalizing an accepted
\* result again returns it unchanged.
C8_WithinLimitUnchanged ==
    (normalized.status # "none")
        => /\ (dispatch.x <= dispatch.limit /\ dispatch.y <= dispatch.limit
                   /\ dispatch.z <= dispatch.limit)
                 => normalized = [status |-> "ok", x |-> dispatch.x, y |-> dispatch.y,
                                  z |-> dispatch.z]
           /\ (normalized.status = "ok")
                 => NormalizeDispatchGroupSize(normalized.x, normalized.y, normalized.z,
                                               dispatch.limit) = normalized

\* the documented scenario: (2, 1, 1) under limit 65535
C8_Witness ==
    /\ dispatch = [x |-> 2, y |-> 1, z |-> 1, limit |-> 65535]
    /\ normalized = [status |-> "ok", x |-> 2, y |-> 1, z |-> 1]

\* C9 (as claimed): (100000, 100000, 1) under limit 65535 is accepted with
\* the cube-root candidate, about 46416, in all three dimensions.
C9_CubeRootAbout46416 ==
    (dispatch = [x |-> 100000, y |-> 100000, z |-> 1, limit |-> 65535]
         /\ normalized.status # "none")
        => /\ normalized.status = "ok"
           /\ normalized.x = normalized.y /\ normalized.y = normalized.z
           /\ normalized.x >= 46415 /\ normalized.x <= 46417

\* C9 (amended): (100000, 100000, 1) under limit 65535 is not accepted as is,
\* its square-root candidate is 100000 > 65535, and the cube-root candidate
\* ceil(cbrt(10^10)) = 2155 is used for all three dimensions and accepted.
C9_CubeRootIs2155 ==
    (dispatch = [x |-> 100000, y |-> 100000, z |-> 1, limit |-> 65535]
         /\ normalized.status # "none")
        => LET size == BigMul(BigOf(100000), BigOf(100000))
           IN  /\ dispatch.x > dispatch.limit
               /\ BigPow(100000, 2) = size
               /\ BigLess(BigPow(2154, 3), size) /\ BigLeq(size, BigPow(2155, 3))
               /\ normalized = [status |-> "ok", x |-> 2155, y |-> 2155, z |-> 2155]

\* the scenario's request, normalized
C9_Witness ==
    /\ dispatch = [x |-> 100000, y |-> 100000, z |-> 1, limit |-> 65535]
    /\ normalized.status = "ok"

\* C10 (as claimed, for a dispatch that is not 1-D): a normalized dispatch
\* with y > 1 or z > 1, such as the (s, s, 1) or (c, c, c) that normalization
\* produces, gets the entry point that computes global_idx with the
\* workgroup_id / num_workgroups formula, never the one that takes it from
\* global_id.x.
C10_BodySelectedByDispatch ==
    (/\ sh.status = "ready"
     /\ sh.body_ # ""
     /\ (sh.dispatch_group_size.y > 1 \/ sh.dispatch_group_size.z > 1))
        => sh.body_ = "workgroup_id"

\* the descriptor invariant: every uniform has at least one element
AllUniformsNonEmpty == \A i \in 1..Len(uniform_variables) : uniform_variables[i].length >= 1

\* C11: a single f32 uniform of 5 elements is laid out at offset 0 with
\* alignment 16 as an array of 2 groups of 16 bytes (32 bytes consumed), and
\* uniform_total_size is 32, a multiple of 16.
C11_Float32Count5 ==
    (uniform_variables = <<[data_type |-> "f32", length |-> 5]>>
         /\ program_artifact.status # "none")
        => LET uniform == uniform_variables[1]
           IN  /\ program_artifact.status = "ok"
               /\ program_artifact.uniforms = <<[data_type |-> "f32", offset |-> 0, length |-> 5]>>
               /\ BaseAlignment(uniform) = 16
               /\ UniformField(uniform) = [align16 |-> FALSE, repr |-> "array<vec4>",
                                           type |-> "f32", count |-> 2]
               /\ ConsumedSize(uniform) = 32
               /\ program_artifact.uniform_total_size = 32
               /\ program_artifact.uniform_total_size % 16 = 0

\* the layout of the single f32 uniform of 5 elements has been computed
C11_Witness ==
    /\ uniform_variables = <<[data_type |-> "f32", length |-> 5]>>
    /\ program_artifact.status = "ok"

\* C12: for uniforms of at least one element each, the offset recorded for
\* uniform i is the offset WGSL gives field i of the emitted struct Uniforms,
\* and uniform_total_size is at least the WGSL size of that struct.
C12_OffsetsMatchWgslStruct ==
    (program_artifact.status # "none" /\ AllUniformsNonEmpty /\ Len(uniform_variables) >= 1)
        => LET fields == UniformsStruct(uniform_variables)
           IN  /\ program_artifact.status = "ok"
               /\ Len(program_artifact.uniforms) = Len(fields)
               /\ \A i \in 1..Len(fields) :
                      program_artifact.uniforms[i].offset = WgslOffsetOfMember(fields, i)
               /\ program_artifact.uniform_total_size >= WgslSizeOfStruct(fields)

\* an f16 array of two mat2x4 followed by a uniform that needs padding
C12_Witness ==
    /\ program_artifact.status = "ok"
    /\ Len(uniform_variables) = 2
    /\ uniform_variables[1] = [data_type |-> "f16", length |-> 9]
    /\ uniform_variables[2].length = 3
    /\ program_artifact.uniforms[2].offset = 32

C14_AlignedTo16 ==
    (program_artifact.status = "ok")
        => \A i \in 1..Len(uniform_variables) :
               LET uniform == uniform_variables[i]
               IN  (\/ (uniform.data_type # "f16" /\ uniform.length = 2)
                    \/ uniform.length \in {3, 4})
                       => program_artifact.uniforms[i].offset % 16 = 0

\* C14 (amended): a uniform of a type other than f16 is placed at a multiple
\* of 8 when it has 2 elements and at a multiple of 16 when it has 3 or 4;
\* an f16 uniform with 3 or 4 elements is placed at a multiple of 8.
C14_AlignedAsWgslVectors ==
    (program_artifact.status = "ok")
        => \A i \in 1..Len(uniform_variables) :
               LET uniform == uniform_variables[i]
                   offset == program_artifact.uniforms[i].offset
               IN  /\ (uniform.data_type # "f16" /\ uniform.length = 2) => offset % 8 = 0
                   /\ (uniform.data_type # "f16" /\ uniform.length \in {3, 4}) => offset % 16 = 0
                   /\ (uniform.data_type = "f16" /\ uniform.length \in {3, 4}) => offset % 8 = 0

\* an f32 pair placed at offset 8, right after a uniform of 4 bytes
C14_Witness ==
    /\ program_artifact.status = "ok"
    /\ Len(uniform_variables) = 2
    /\ uniform_variables[2] = [data_type |-> "f32", length |-> 2]
    /\ program_artifact.uniforms[2].offset = 8

\* The facts of a key request that the key is meant to record: name, hint,
\* 1-D flag, the uniforms' element counts in order, and of every input the
\* type, rank and shape that its dependency selects.
SelectedFacts(request) ==
    [name |-> request.name,
     cache_hint |-> request.cache_hint,
     is_1d_dispatch |-> request.is_1d_dispatch,
     counts |-> [i \in 1..Len(request.variables) |-> request.variables[i].length],
     inputs |-> [i \in 1..Len(request.inputs) |->
                    LET input == request.inputs[i]
                    IN  [type  |-> IF "Type" \in input.dependency
                                   THEN <<input.tensor.element_type>> ELSE <<>>,
                         rank  |-> IF "Rank" \in input.dependency
                                   THEN <<Len(input.tensor.shape)>> ELSE <<>>,
                         shape |-> IF "Shape" \in input.dependency
                                   THEN <<input.tensor.shape>> ELSE <<>>]]]

\* C15: two requests with the same name, hint, 1-D flag, uniform element
\* counts and flag-selected input facts get the same key, whatever their
\* outputs and their unselected input types, ranks and shapes are; the key
\* of a request is the same each time it is calculated.
C15_KeyDependsOnSelectedFactsOnly ==
    (cache_keys # NoKeys)
        => /\ (SelectedFacts(key_requests[1]) = SelectedFacts(key_requests[2]))
                  => cache_keys[1] = cache_keys[2]
           /\ cache_keys[1] = CalculateProgramCacheKey(key_requests[1],
                                                       key_requests[1].is_1d_dispatch)

\* two requests whose inputs differ in an unselected fact, with equal keys
C15_Witness ==
    /\ cache_keys # NoKeys
    /\ key_requests[1].inputs # key_requests[2].inputs
    /\ SelectedFacts(key_requests[1]) = SelectedFacts(key_requests[2])
    /\ cache_keys[1] = cache_keys[2]

\* the two requests have the same number of inputs with the same dependencies
SameDependencies ==
    /\ Len(key_requests[1].inputs) = Len(key_requests[2].inputs)
    /\ \A i \in 1..Len(key_requests[1].inputs) :
           key_requests[1].inputs[i].dependency = key_requests[2].inputs[i].dependency

\* C16 (as claimed): when one field of the key (name, hint, 1-D flag, the list
\* of uniform element counts, or an input's type, rank or shape that its
\* dependency selects) is changed and everything else is kept, the key changes.
C16_OneFieldChangesKey ==
    (/\ cache_keys # NoKeys
     /\ SameDependencies
     /\ SelectedFacts(key_requests[1]) # SelectedFacts(key_requests[2]))
        => cache_keys[1] # cache_keys[2]

\* C18 (as claimed): two inputs whose dependency has both Rank and Shape, with
\* the same rank and different shapes, give different keys.
C18_ShapeTakesPrecedence ==
    (/\ cache_keys # NoKeys
     /\ Len(key_requests[1].inputs) = Len(key_requests[2].inputs)
     /\ \E i \in 1..Len(key_requests[1].inputs) :
            LET a == key_requests[1].inputs[i]
                b == key_requests[2].inputs[i]
            IN  /\ {"Rank", "Shape"} \subseteq a.dependency
                /\ a.dependency = b.dependency
                /\ Len(a.tensor.shape) = Len(b.tensor.shape)
                /\ a.tensor.shape # b.tensor.shape)
        => cache_keys[1] # cache_keys[2]

\* C19 (as claimed): two uniform lists that differ, at least one of them
\* holding an empty uniform, give different keys; in particular no uniforms
\* and one or more empty uniforms do.
C19_EmptyUniformIsExplicitField ==
    (/\ cache_keys # NoKeys
     /\ SelectedFacts(key_requests[1]).counts # SelectedFacts(key_requests[2]).counts
     /\ \E r \in 1..2 : \E i \in 1..Len(key_requests[r].variables) :
            key_requests[r].variables[i].length = 0)
        => cache_keys[1] # cache_keys[2]

\* the first input of both programs is declared with the Type dependency, as
\* the unary elementwise kernels declare it, and no uniform is empty
DeclaredAsUnaryKernel ==
    \A r \in 1..2 : /\ Len(key_requests[r].inputs) >= 1
                     /\ "Type" \in key_requests[r].inputs[1].dependency
                     /\ \A i \in 1..Len(key_requests[r].variables) :
                            key_requests[r].variables[i].length >= 1

\* C17 (as claimed): two programs of the unary elementwise kind that get the
\* same cache key get the same shader source: the same f16 directive, the
\* same storage bindings with the same storage types, and the same struct
\* Uniforms with the same field names, element types and representation.
\* Stated for programs whose input dependency is the one the kernels declare
\* and whose uniforms all have at least one element.
C17_EqualKeysEqualSource ==
    (/\ cache_keys # NoKeys
     /\ shader_sources # NoSources
     /\ shader_sources[1].status = "ok" /\ shader_sources[2].status = "ok"
     /\ DeclaredAsUnaryKernel
     /\ cache_keys[1] = cache_keys[2])
        => shader_sources[1] = shader_sources[2]

\* C20: the generated source declares the inputs in the order they were
\* added and then the outputs in theirs, whatever the order of scopes in the
\* AddVariable calls was; the k-th declaration has binding index k-1; the
\* uniform block is present exactly when the program has uniforms and then
\* has binding index (number of inputs + number of outputs); no binding
\* index is used twice.
C20_BindingsInputsThenOutputs ==
    (final_source # NoSource /\ final_source.status = "ok")
        => LET IsInput(c) == c.scope = "Input"
               IsOutput(c) == c.scope = "Output"
               ins == SelectSeq(add_calls, IsInput)
               outs == SelectSeq(add_calls, IsOutput)
               declared == final_source.variables
               indices == [k \in 1..Len(declared) |-> declared[k].binding]
                              \o (IF final_source.uniforms.present
                                  THEN <<final_source.uniforms.binding>> ELSE <<>>)
           IN  /\ Len(declared) = Len(ins) + Len(outs)
               /\ \A k \in 1..Len(declared) :
                      LET c == IF k <= Len(ins) THEN ins[k] ELSE outs[k - Len(ins)]
                      IN  /\ declared[k].binding = k - 1
                          /\ declared[k].name = c.name
                          /\ declared[k].storage_type = StorageType(c.type)
                          /\ declared[k].access
                                 = (IF k <= Len(ins) THEN "read" ELSE "read_write")
               /\ final_source.uniforms.present = (Len(uniform_variables) > 0)
               /\ final_source.uniforms.present
                      => final_source.uniforms.binding = Len(ins) + Len(outs)
               /\ \A i, j \in 1..Len(indices) : indices[i] = indices[j] => i = j

\* a source with a uniform block, generated after an output was added
\* first, then an input, then another output
C20_Witness ==
    /\ final_source # NoSource
    /\ final_source.status = "ok"
    /\ final_source.uniforms.present
    /\ Len(add_calls) = 3
    /\ add_calls[1].scope = "Output"
    /\ add_calls[2].scope = "Input"
    /\ add_calls[3].scope = "Output"

\* position of a section in the fixed order
SectionRank(label) ==
    CASE label = "enable" -> 1
      [] label = "constants" -> 2
      [] label = "input" -> 3
      [] label = "output" -> 4
      [] label = "uniforms" -> 5
      [] label = "implementation" -> 6
      [] label = "body" -> 7

\* C21: in every generated source the sections come in the order f16
\* directive, workgroup-size constant and overrides, input bindings, output
\* bindings, uniform block and its binding, appended fragments, entry point,
\* whatever the order of the AddVariable, AppendImplementation and
\* MainFunctionBody calls was; the uniform block is there exactly when the
\* program has a uniform, the fragments are in append order, and the entry
\* point is the last section.
C21_SectionsInFixedOrder ==
    (final_source # NoSource /\ final_source.status = "ok")
        => LET sections == final_source.sections
               Of(label) == SelectSeq(sections, LAMBDA e : e.section = label)
           IN  /\ \A i, j \in 1..Len(sections) :
                      i < j => SectionRank(sections[i].section) <= SectionRank(sections[j].section)
               /\ Len(Of("enable")) <= 1
               /\ Len(Of("constants")) = 4
               /\ Len(Of("input")) = Len(sh.vars_["Input"])
               /\ Len(Of("output")) = Len(sh.vars_["Output"])
               /\ (Of("uniforms") # <<>>) = (Len(uniform_variables) >= 1)
               /\ [i \in 1..Len(Of("implementation")) |-> Of("implementation")[i].text]
                      = sh.implementation_
               /\ Of("body") = <<[section |-> "body", text |-> sh.body_]>>
               /\ sections[Len(sections)].section = "body"

\* a source with every section: the directive, an input, an output, the
\* uniform block, two fragments and the entry point
C21_Witness ==
    /\ final_source # NoSource
    /\ final_source.status = "ok"
    /\ final_source.enable_f16
    /\ Len(sh.vars_["Input"]) >= 1
    /\ Len(sh.vars_["Output"]) >= 1
    /\ final_source.uniforms.present
    /\ sh.implementation_ = <<"fn g() {}", "fn f() {}">>
    /\ sh.body_ # ""

ValidWorkgroupSize(w) ==
    /\ w.x > 0 /\ w.y > 0 /\ w.z > 0
    /\ w.x <= MaxWorkgroupSize /\ w.y <= MaxWorkgroupSize /\ w.z <= MaxWorkgroupSize
    /\ w.x * w.y * w.z <= MaxInvocations

\* C23: a MainFunctionBody call with a zero dimension, a dimension above the
\* device's maximum or a product above maxComputeInvocationsPerWorkgroup
\* fails and leaves the body as it was, so a helper without a body stays
\* without one; on a helper without a body every other workgroup size is
\* accepted and sets the body.
C23_InvalidWorkgroupSizeRejected ==
    [][(last_call'.op = "MainFunctionBody")
          => IF ValidWorkgroupSize(last_call'.workgroup_size)
             THEN (sh.body_ = "") => (~sh'.threw /\ sh'.body_ # "")
             ELSE sh'.threw /\ sh'.body_ = sh.body_]_vars

\* a call whose dimensions are each within the maximum and whose product is
\* not was rejected and the helper has no body
C23_Witness ==
    /\ last_call.op = "MainFunctionBody"
    /\ last_call.workgroup_size = [x |-> MaxWorkgroupSize, y |-> MaxWorkgroupSize,
                                   z |-> MaxWorkgroupSize]
    /\ sh.threw
    /\ sh.body_ = ""

\* number of input and output variables a helper holds
StorageBufferCount(helper) == Len(helper.vars_["Input"]) + Len(helper.vars_["Output"])

\* C24: the helper never holds more than maxStorageBuffersPerShaderStage
\* input and output variables; an AddVariable call made when it holds that
\* many fails and leaves the variable lists unchanged, and a call with an
\* Input or Output scope and a valid type made when it holds fewer succeeds
\* and adds one variable, the call that reaches the maximum included.
C24_StorageBufferLimit ==
    [][/\ StorageBufferCount(sh') <= MaxStorageBuffers
       /\ (last_call'.op = "AddVariable")
             => IF StorageBufferCount(sh) >= MaxStorageBuffers
                THEN sh'.threw /\ sh'.vars_ = sh.vars_
                ELSE (last_call'.scope \in {"Input", "Output"}
                          /\ last_call'.type # "invalid_type")
                         => /\ ~sh'.threw
                            /\ StorageBufferCount(sh') = StorageBufferCount(sh) + 1]_vars

\* a helper that holds the maximum has rejected a call with a valid scope
\* and type
C24_Witness ==
    /\ StorageBufferCount(sh) = MaxStorageBuffers
    /\ Len(add_calls) = MaxStorageBuffers
    /\ last_call.op = "AddVariable"
    /\ last_call.scope = "Output"
    /\ last_call.type = "f32"
    /\ sh.threw

\* C29: once a body is set it never changes and every later MainFunctionBody
\* call fails, whatever AddVariable and AppendImplementation calls are made
\* in between; on a helper without a body a call with a valid workgroup
\* size succeeds, whether or not an earlier call failed.
C29_BodySetAtMostOnce ==
    [][/\ (sh.body_ # "") => (sh'.body_ = sh.body_)
       /\ (last_call'.op = "MainFunctionBody" /\ sh.body_ # "") => sh'.threw
       /\ (last_call'.op = "MainFunctionBody" /\ sh.body_ = ""
               /\ ValidWorkgroupSize(last_call'.workgroup_size))
             => (~sh'.threw /\ sh'.body_ # "")]_vars

\* a call with a valid workgroup size was rejected because the body, set
\* for another workgroup size, was already there, on a helper that also
\* took a variable and a fragment
C29_Witness ==
    /\ last_call.op = "MainFunctionBody"
    /\ ValidWorkgroupSize(last_call.workgroup_size)
    /\ sh.threw
    /\ sh.body_ # ""
    /\ sh.workgroup_size # last_call.workgroup_size
    /\ Len(add_calls) >= 1
    /\ Len(sh.implementation_) >= 1

\* the helper declares an f16, vec2<f16> or vec4<f16> input or output
HalfPrecisionVariable ==
    \E scope \in {"Input", "Output"} : \E i \in 1..Len(sh.vars_[scope]) :
        sh.vars_[scope][i].type_ \in {"f16", "vec2f16", "vec4f16"}

\* struct Uniforms has a field of element type f16
HalfPrecisionUniform ==
    \E i \in 1..Len(uniform_variables) : uniform_variables[i].data_type = "f16"

\* C25 (as claimed): when GetFinalSourceCode is called for a helper with a
\* half-precision input or output, or for a program with an f16 uniform, it
\* fails on a device without ShaderF16 and otherwise returns a source that
\* begins with the f16 directive; when nothing is half-precision the source
\* is returned without the directive.
C25_F16DirectiveWhenHalfUsed ==
    (last_call.op = "GetFinalSourceCode")
        => IF HalfPrecisionVariable \/ HalfPrecisionUniform
           THEN IF last_call.has_shader_f16
                THEN /\ final_source.status = "ok"
                     /\ final_source.sections[1] = [section |-> "enable", text |-> "enable f16;"]
                ELSE final_source.status = "threw"
           ELSE /\ final_source.status = "ok"
                /\ final_source.sections[1].section # "enable"

\* the requested dispatch has a component that is 0
ZeroDispatchComponent == dispatch.x = 0 \/ dispatch.y = 0 \/ dispatch.z = 0

\* what get-or-build does on an empty cache for a program with the requested
\* dispatch whose generation and compilation would succeed
GetOrBuildOfDispatch ==
    GetOrBuild({}, Absent,
               [key |-> "k1", dispatch |-> [x |-> dispatch.x, y |-> dispatch.y, z |-> dispatch.z],
                generate |-> "ok", compile |-> "ok"], 1)

\* C26 (as claimed): a dispatch with a zero component, (0, 0, 0) included,
\* comes out of normalization unchanged and is rejected by the ShaderHelper
\* constructor.
C26_ZeroDispatchUnchangedAndRejected ==
    (normalized.status # "none" /\ ZeroDispatchComponent)
        => /\ normalized = Accepted(dispatch.x, dispatch.y, dispatch.z)
           /\ ShaderHelperCtor(normalized.x, normalized.y, normalized.z).status = "ctor_failed"

\* C26 (amended): a helper is constructed only for a dispatch whose three
\* counts are >= 1.  A dispatch with a zero component is accepted by
\* normalization and still has a zero component afterwards: it is unchanged
\* when every dimension is within the limit (so (0, 0, 0) is), and becomes
\* (0, 0, 1) when another dimension exceeds the limit.  The ShaderHelper
\* constructor rejects it, Build fails without a pipeline, and get-or-build
\* returns the error and stores nothing.
C26_ZeroDispatchRejected ==
    (normalized.status # "none")
        => /\ (normalized.status = "ok"
                  /\ ShaderHelperCtor(normalized.x, normalized.y, normalized.z).status = "ready")
                 => (normalized.x >= 1 /\ normalized.y >= 1 /\ normalized.z >= 1)
           /\ ZeroDispatchComponent
                 => /\ normalized.status = "ok"
                    /\ normalized.x = 0 \/ normalized.y = 0 \/ normalized.z = 0
                    /\ WithinLimit(dispatch.x, dispatch.y, dispatch.z, dispatch.limit)
                          => normalized = Accepted(dispatch.x, dispatch.y, dispatch.z)
                    /\ ~WithinLimit(dispatch.x, dispatch.y, dispatch.z, dispatch.limit)
                          => normalized = Accepted(0, 0, 1)
                    /\ ShaderHelperCtor(normalized.x, normalized.y, normalized.z).status
                           = "ctor_failed"
                    /\ Build([generate |-> "ok", compile |-> "ok"], normalized, 1)
                           = [status |-> "error", compute_pipeline |-> Absent]
                    /\ (dispatch.limit = CacheLimit)
                          => /\ GetOrBuildOfDispatch.status = "error"
                             /\ GetOrBuildOfDispatch.result = Absent
                             /\ GetOrBuildOfDispatch.programs = {}

\* a dispatch with a zero component and a dimension over the limit, which
\* normalization turned into (0, 0, 1)
C26_Witness ==
    /\ dispatch.x = 0
    /\ dispatch.y > dispatch.limit
    /\ dispatch.limit = CacheLimit
    /\ normalized = Accepted(0, 0, 1)

\* n is the ceiling of the k-th root of size: the least n with n^k >= size
IsCeilingRoot(n, size, k) ==
    /\ BigLeq(size, BigPow(n, k))
    /\ n = 0 \/ BigLess(BigPow(n - 1, k), size)

\* C27 (as claimed): for a request with a dimension over the limit L, with
\* s = ceil(sqrt(x*y*z)) and c = ceil(cbrt(x*y*z)): the result is (s, s, 1)
\* when s <= L, (c, c, c) when s > L and c <= L, and a failure that leaves
\* x, y and z as they were when c > L.
C27_NormalizerBranches ==
    (normalized.status # "none"
         /\ ~WithinLimit(dispatch.x, dispatch.y, dispatch.z, dispatch.limit))
        => LET size == DispatchProduct(dispatch.x, dispatch.y, dispatch.z)
           IN  IF BigLeq(size, BigPow(dispatch.limit, 2))
               THEN /\ normalized.status = "ok"
                    /\ normalized.y = normalized.x /\ normalized.z = 1
                    /\ IsCeilingRoot(normalized.x, size, 2)
               ELSE IF BigLeq(size, BigPow(dispatch.limit, 3))
               THEN /\ normalized.status = "ok"
                    /\ normalized.y = normalized.x /\ normalized.z = normalized.x
                    /\ IsCeilingRoot(normalized.x, size, 3)
               ELSE /\ normalized.status # "ok"
                    /\ normalized.x = dispatch.x
                    /\ normalized.y = dispatch.y
                    /\ normalized.z = dispatch.z

\* C28 (as claimed): for a helper with an entry point, the global_idx values
\* of the x*y*z*wx*wy*wz invocations are pairwise distinct and are exactly
\* 0 .. x*y*z*wx*wy*wz - 1.
C28_GlobalIdxCoversEachIndexOnce ==
    (sh.status = "ready" /\ sh.body_ # "")
        => LET total == sh.dispatch_group_size.x * sh.dispatch_group_size.y
                            * sh.dispatch_group_size.z * sh.workgroup_size.x
                            * sh.workgroup_size.y * sh.workgroup_size.z
           IN  /\ \A a, b \in Invocations(sh) :
                      GlobalIdx(sh, a.workgroup_id, a.local_id)
                              = GlobalIdx(sh, b.workgroup_id, b.local_id)
                          => a = b
               /\ {GlobalIdx(sh, a.workgroup_id, a.local_id) : a \in Invocations(sh)}
                      = 0..(total - 1)

\* C30 (as claimed): once the artifact of a program has been constructed,
\* the alignment used to round the cursor was >= 1 for every uniform of the
\* program, the default-constructed empty uniform included, and the
\* rounding did not divide by zero.
C30_AlignmentAtLeastOne ==
    program_artifact.status # "none"
        => /\ \A i \in 1..Len(uniform_variables) : BaseAlignment(uniform_variables[i]) >= 1
           /\ program_artifact.status # "division_by_zero"

=============================================================================
